---------------------------- MODULE Spec2Model ----------------------------
(***************************************************************************)
(* A model of the drawit diagram engine: the generic graph layouts         *)
(* (lib/diagram-layouts.ts), the network topologies, the AI tool handlers  *)
(* that put diagrams on the canvas, the connector path router and the      *)
(* diagram quality analyzer.                                               *)
(*                                                                         *)
(* Conventions.  A JavaScript Map is a function whose DOMAIN is its key    *)
(* set.  An optional numeric field or option that the code reads with      *)
(* `v || d` is an integer, 0 standing for "absent" (0 and undefined take   *)
(* the same branch of ||).  An optional field read with `!== undefined`    *)
(* has a companion boolean (hasX, hasY).  A call that throws returns the   *)
(* record Thrown.  Coordinates are whole pixels.                           *)
(***************************************************************************)
EXTENDS Integers, Sequences, FiniteSets, TLC

VARIABLES
    nodes,      \* layout input: Node[]
    edges,      \* layout input: Edge[]
    options,    \* layout input: LayoutOptions
    layout,     \* the LayoutResult of the last layout call (or NoLayout)
    again,      \* the LayoutResult of a second call on the same arguments (or NoLayout)
    args,       \* tool handlers: the arguments of the last handler call
    ctx,        \* tool handlers: the canvas side of ToolHandlerContext
    result,     \* tool handlers: what the last handler call returned
    canvas,     \* beautify: the elements on the canvas
    updates,    \* beautify: the updates the last beautifyDiagram call returned
    passes,     \* beautify: the number of handleBeautifyDiagram calls so far
    elements,   \* connector router: the elements argument
    connection, \* connector router: the connection argument
    routed,     \* connector router: what generateConnectorPath returned
    polyline,   \* buildRoundedPath: the points argument
    requested,  \* buildRoundedPath: the radius argument
    rounded,    \* buildRoundedPath: the path it returned
    analysis,   \* analyzer: what the last analyzeDiagram call returned
    edgeShape,  \* edge intersection: the shape argument
    edgeAngle,  \* edge intersection: the angle argument
    hit,        \* edge intersection: the point calculateEdgeIntersection returned
    curveArgs,  \* curved path: the arguments of calculateCurvedPath
    curve,      \* curved path: the control points it returned
    hierarchy,  \* org chart: the hierarchy argument (the caller's array)
    orgOptions, \* org chart: the options argument
    orgLayout,  \* org chart: the OrgChartLayout it returned
    flowArgs,   \* flowchart: the arguments of the calls
    flowLayout, \* flowchart: what calculateFlowchartLayout returned
    flowResult, \* flowchart: what handleCreateFlowchart returned
    hook,       \* useAIDiagram: status, result, error and the two refs of the hook
    aborted,    \* useAIDiagram: the AbortControllers on which abort() was called
    runs,       \* useAIDiagram: the trigger() calls, each at its await point
    store,      \* canvas store: elements, connections, currentDiagramId, isSaving
    debouncer,  \* canvas store: timeoutId and lastArgs of debouncedAutoSave
    inflight,   \* canvas store: the diagramService.autoSave promises not yet settled
    lastCall,   \* canvas store: the arguments of the last diagramService.autoSave call
    mindArgs,   \* mind map: the args of handleCreateMindMap
    mindResult, \* mind map: what handleCreateMindMap returned, or that it threw
    stepArgs,   \* smoothstep: the arguments of getSmoothStepPath
    stepPath,   \* smoothstep: the polyline it built and what it returned
    rateLimitStore, \* middleware: identifier -> [count, resetTime]
    now,            \* middleware: Date.now()
    checks,         \* middleware: the calls of checkRateLimit so far, in order
    toolCall    \* tool handlers in sequence: the last call, its outcome, the canvas before it

lvars == <<nodes, edges, options, layout, again>>

hvars == <<args, ctx, result>>

bvars == <<canvas, updates, passes>>

cvars == <<elements, connection, routed>>

rvars == <<polyline, requested, rounded>>

avars == <<analysis>>

evars == <<edgeShape, edgeAngle, hit>>

kvars == <<curveArgs, curve>>

ovars == <<hierarchy, orgOptions, orgLayout>>

fvars == <<flowArgs, flowLayout, flowResult>>

nvars == <<avars, evars, kvars, ovars, fvars>>

pvars == <<hook, aborted, runs>>

svars == <<store, debouncer, inflight, lastCall>>

mvars == <<mindArgs, mindResult>>

gvars == <<stepArgs, stepPath>>

qvars == <<rateLimitStore, now, checks>>

tvars == <<toolCall>>

xvars == <<pvars, svars, mvars, gvars, qvars, tvars>>

vars == <<lvars, hvars, bvars, cvars, rvars, nvars, xvars>>

-----------------------------------------------------------------------------
(* Small helpers *)

Range(s) == {s[i] : i \in DOMAIN s}

Max(a, b) == IF a >= b THEN a ELSE b

Min(a, b) == IF a <= b THEN a ELSE b

Abs(a) == IF a < 0 THEN -a ELSE a

\* JavaScript `v || d` on numbers
Or(v, d) == IF v = 0 THEN d ELSE v

SeqsUpTo(S, n) == UNION {[1..k -> S] : k \in 0..n}

RECURSIVE SetMax(_)
SetMax(S) ==
    IF S = {} THEN 0
    ELSE LET x == CHOOSE v \in S : TRUE IN Max(x, SetMax(S \ {x}))

EmptyMap == [k \in {} |-> 0]

\* Map.set(k, v)
MapSet(m, k, v) == [q \in DOMAIN m \cup {k} |-> IF q = k THEN v ELSE m[q]]

-----------------------------------------------------------------------------
(* Nodes, edges, options: lib/diagram-layouts.ts *)

NodeIds == {"a", "b", "c"}

NodeOrder == <<"a", "b", "c">>

MaxEdges == 3

PlainNode(id) ==
    [id |-> id, width |-> 0, height |-> 0, fixed |-> FALSE,
     hasX |-> FALSE, x |-> 0, hasY |-> FALSE, y |-> 0]

PinnedNode(id) ==
    [id |-> id, width |-> 0, height |-> 0, fixed |-> TRUE,
     hasX |-> TRUE, x |-> 7, hasY |-> TRUE, y |-> 11]

\* the node lists tried: a prefix of NodeOrder, at most one node pinned
NodeLists ==
    {[i \in 1..n |-> IF i = p THEN PinnedNode(NodeOrder[i]) ELSE PlainNode(NodeOrder[i])] :
        n \in 0..Len(NodeOrder), p \in 0..Len(NodeOrder)}

\* edges range over all ids, so with a shorter node list some are dangling
EdgeSet == [from : NodeIds, to : NodeIds]

EdgeLists == SeqsUpTo(EdgeSet, MaxEdges)

NoOptions ==
    [spacing |-> 0, centerX |-> 0, centerY |-> 0, radius |-> 0, columns |-> 0,
     rowSpacing |-> 0, colSpacing |-> 0, minSpacing |-> 0, rankDirection |-> "TB"]

OptionChoices ==
    {NoOptions,
     [NoOptions EXCEPT !.spacing = 300, !.centerX = 600, !.rowSpacing = 200,
                       !.columns = 2, !.rankDirection = "RL"]}

NodeIdSet(ns) == {ns[i].id : i \in DOMAIN ns}

\* new Map(nodes.map((n) => [n.id, n])).get(id): the last node with that id
NodeById(ns, id) ==
    ns[CHOOSE i \in DOMAIN ns : ns[i].id = id /\ \A j \in DOMAIN ns : ns[j].id = id => j <= i]

Thrown == [thrown |-> TRUE, nodes |-> EmptyMap, bounds |-> [width |-> 0, height |-> 0], aux |-> <<>>]

NoLayout == [algo |-> "none", thrown |-> FALSE, nodes |-> EmptyMap,
             bounds |-> [width |-> 0, height |-> 0], aux |-> <<>>]

\* bounds: { width: maxX + 100, height: maxY + 100 } over the placed rectangles
BoundsOf(placed) ==
    [width |-> SetMax({placed[k].x + placed[k].width : k \in DOMAIN placed}) + 100,
     height |-> SetMax({placed[k].y + placed[k].height : k \in DOMAIN placed}) + 100]

\* Place reading a module-level offset that grows with every call
PlaceDrifting(node, cx, cy, defW, defH) ==
    LET drift == IF layout.algo = "none" THEN 0 ELSE 1
    IN [x |-> IF node.fixed /\ node.hasX THEN node.x ELSE cx + drift,
        y |-> IF node.fixed /\ node.hasY THEN node.y ELSE cy,
        width |-> Or(node.width, defW),
        height |-> Or(node.height, defH)]

\* the position a layout gives one node: node.fixed && node.x !== undefined ? node.x : cx
Place(node, cx, cy, defW, defH) ==
    [x |-> IF node.fixed /\ node.hasX THEN node.x ELSE cx,
     y |-> IF node.fixed /\ node.hasY THEN node.y ELSE cy,
     width |-> Or(node.width, defW),
     height |-> Or(node.height, defH)]

\* children.get(id): the targets of the edges leaving id, in edge order
ChildrenOf(es, id) ==
    LET F[i \in 0..Len(es)] ==
            IF i = 0 THEN <<>>
            ELSE IF es[i].from = id THEN Append(F[i - 1], es[i].to) ELSE F[i - 1]
    IN F[Len(es)]

\* where id stands in the sequence of sequences groups: <<group, index>> (1-based)
GroupOf(groups, id) ==
    CHOOSE gi \in {<<g, i>> : g \in DOMAIN groups, i \in 1..Len(NodeOrder) + MaxEdges + 1} :
        gi[2] \in DOMAIN groups[gi[1]] /\ groups[gi[1]][gi[2]] = id

GroupIds(groups) == UNION {Range(groups[g]) : g \in DOMAIN groups}

-----------------------------------------------------------------------------
(* treeLayout *)

\* the BFS of treeLayout: the first visit of an id fixes its level
RECURSIVE TreeBFS(_, _, _, _)
TreeBFS(es, queue, visited, levels) ==
    IF queue = <<>> THEN levels
    ELSE LET h == Head(queue)
             rest == Tail(queue)
         IN IF h.id \in visited THEN TreeBFS(es, rest, visited, levels)
            ELSE LET lv == IF h.level + 1 > Len(levels)
                           THEN Append(levels, <<h.id>>)
                           ELSE [levels EXCEPT ![h.level + 1] = Append(@, h.id)]
                     kids == ChildrenOf(es, h.id)
                     more == [i \in 1..Len(kids) |-> [id |-> kids[i], level |-> h.level + 1]]
                 IN TreeBFS(es, rest \o more, visited \cup {h.id}, lv)

\* roots = nodes.filter((n) => !parents.has(n.id))
TreeRoots(ns, es) ==
    LET parents == {es[i].to : i \in DOMAIN es}
    IN SelectSeq(ns, LAMBDA n : n.id \notin parents)

TreeLevels(ns, es) ==
    LET roots == TreeRoots(ns, es)
    IN TreeBFS(es, [i \in 1..Len(roots) |-> [id |-> roots[i].id, level |-> 0]], {}, <<>>)

treeLayout(ns, es, opts) ==
    LET spacing == Or(opts.spacing, 150)
        verticalSpacing == 150
        startX == Or(opts.centerX, 400)
        startY == Or(opts.centerY, 100)
        levels == TreeLevels(ns, es)
        ids == GroupIds(levels)
        placed == [id \in ids |->
                    LET gi == GroupOf(levels, id)
                        totalWidth == Len(levels[gi[1]]) * spacing
                        startXForLevel == startX - (totalWidth \div 2)
                    IN Place(NodeById(ns, id),
                             startXForLevel + (gi[2] - 1) * spacing,
                             startY + (gi[1] - 1) * verticalSpacing, 150, 80)]
    IN IF \E id \in ids : id \notin NodeIdSet(ns)
       THEN Thrown   \* nodeMap.get(nodeId)! is undefined: node.width throws
       ELSE [thrown |-> FALSE, nodes |-> placed, bounds |-> BoundsOf(placed), aux |-> levels]

-----------------------------------------------------------------------------
(* circularLayout, gridLayout *)

\* cos and sin of 2*pi*index/count - pi/2 (index from 0), in thousandths
CosSin(index, count) ==
    LET turn == IF count = 0 THEN 0 ELSE (12 * index) \div count   \* in twelfths of a turn
    IN CASE turn = 0 -> [cos |-> 0, sin |-> -1000]
         [] turn = 3 -> [cos |-> 1000, sin |-> 0]
         [] turn = 4 -> [cos |-> 866, sin |-> 500]
         [] turn = 6 -> [cos |-> 0, sin |-> 1000]
         [] turn = 8 -> [cos |-> -866, sin |-> 500]
         [] turn = 9 -> [cos |-> -1000, sin |-> 0]
         [] OTHER -> [cos |-> 0, sin |-> 0]

\* center + radius * cos(angle), in whole pixels
Polar(center, radius, milli) ==
    IF radius * milli >= 0 THEN center + (radius * milli) \div 1000
    ELSE center - ((-(radius * milli)) \div 1000)

circularLayout(ns, es, opts) ==
    LET centerX == Or(opts.centerX, 500)
        centerY == Or(opts.centerY, 400)
        radius == Or(opts.radius, 250)
        nth(id) == CHOOSE i \in DOMAIN ns : ns[i].id = id /\ \A j \in DOMAIN ns : ns[j].id = id => j <= i
        placed == [id \in NodeIdSet(ns) |->
                    LET node == ns[nth(id)]
                        cs == CosSin(nth(id) - 1, Len(ns))
                    IN Place(node,
                             Polar(centerX, radius, cs.cos) - (Or(node.width, 150) \div 2),
                             Polar(centerY, radius, cs.sin) - (Or(node.height, 80) \div 2),
                             150, 80)]
    IN [thrown |-> FALSE, nodes |-> placed, bounds |-> BoundsOf(placed), aux |-> <<>>]

\* Math.ceil(Math.sqrt(n))
CeilSqrt(n) == CHOOSE k \in 0..n : k * k >= n /\ (k = 0 \/ (k - 1) * (k - 1) < n)

gridLayout(ns, es, opts) ==
    LET columns == Or(opts.columns, CeilSqrt(Len(ns)))
        rowSpacing == Or(opts.rowSpacing, 150)
        colSpacing == Or(opts.colSpacing, 200)
        nth(id) == CHOOSE i \in DOMAIN ns : ns[i].id = id /\ \A j \in DOMAIN ns : ns[j].id = id => j <= i
        placed == [id \in NodeIdSet(ns) |->
                    LET index == nth(id) - 1
                    IN Place(ns[nth(id)],
                             100 + (index % columns) * colSpacing,
                             100 + (index \div columns) * rowSpacing, 150, 80)]
    IN [thrown |-> FALSE, nodes |-> placed, bounds |-> BoundsOf(placed), aux |-> <<>>]

-----------------------------------------------------------------------------
(* dagreLayout *)

\* inDegree after the edges.forEach: every edge counts for its `to`, node or not
InDegree0(ns, es) ==
    LET keys == NodeIdSet(ns) \cup {es[i].to : i \in DOMAIN es}
    IN [k \in keys |-> Cardinality({i \in DOMAIN es : es[i].to = k})]

\* outEdges.get(id): undefined (here: none) when id is not a node
OutEdges(ns, es, id) == IF id \in NodeIdSet(ns) THEN ChildrenOf(es, id) ELSE <<>>

\* the relaxation keeping a child's first rank: no Math.max over the parents
RECURSIVE DagreRelaxFirstParent(_, _, _)
DagreRelaxFirstParent(kids, currentRank, st) ==
    IF kids = <<>> THEN st
    ELSE LET childId == Head(kids)
             newDegree == (IF childId \in DOMAIN st.inDegree THEN st.inDegree[childId] ELSE 0) - 1
             childRank == IF childId \in DOMAIN st.ranks THEN st.ranks[childId]
                          ELSE currentRank + 1
         IN DagreRelaxFirstParent(Tail(kids), currentRank,
                [inDegree |-> MapSet(st.inDegree, childId, newDegree),
                 ranks |-> MapSet(st.ranks, childId, childRank),
                 order |-> IF childId \in DOMAIN st.ranks THEN st.order ELSE Append(st.order, childId),
                 queue |-> IF newDegree = 0 THEN Append(st.queue, childId) ELSE st.queue])

\* one pass of outEdges.get(nodeId)?.forEach(...): kids left to do, state st
RECURSIVE DagreRelax(_, _, _)
DagreRelax(kids, currentRank, st) ==
    IF kids = <<>> THEN st
    ELSE LET childId == Head(kids)
             newDegree == (IF childId \in DOMAIN st.inDegree THEN st.inDegree[childId] ELSE 0) - 1
             childRank == Max(IF childId \in DOMAIN st.ranks THEN st.ranks[childId] ELSE 0,
                              currentRank + 1)
         IN DagreRelax(Tail(kids), currentRank,
                [inDegree |-> MapSet(st.inDegree, childId, newDegree),
                 ranks |-> MapSet(st.ranks, childId, childRank),
                 order |-> IF childId \in DOMAIN st.ranks THEN st.order ELSE Append(st.order, childId),
                 queue |-> IF newDegree = 0 THEN Append(st.queue, childId) ELSE st.queue])

\* while (queue.length > 0) { ... }
RECURSIVE DagreLoop(_, _, _)
DagreLoop(ns, es, st) ==
    IF st.queue = <<>> THEN st
    ELSE LET nodeId == Head(st.queue)
         IN DagreLoop(ns, es,
                DagreRelax(OutEdges(ns, es, nodeId), st.ranks[nodeId],
                           [st EXCEPT !.queue = Tail(st.queue)]))

\* mutant: the nodes the loop never reached get no rank
DagreRanksNoFallback(ns, es) ==
    LET deg == InDegree0(ns, es)
        sources == SelectSeq([i \in DOMAIN ns |-> ns[i].id], LAMBDA id : deg[id] = 0)
        st == DagreLoop(ns, es, [inDegree |-> deg, ranks |-> [id \in Range(sources) |-> 0],
                                 order |-> sources, queue |-> sources])
    IN [ranks |-> st.ranks, order |-> st.order]

\* ranks (a Map: `ranks` with its insertion order `order`) after the cycle fallback
DagreRanks(ns, es) ==
    LET deg == InDegree0(ns, es)
        sources == SelectSeq([i \in DOMAIN ns |-> ns[i].id], LAMBDA id : deg[id] = 0)
        st0 == [inDegree |-> deg,
                ranks |-> [id \in Range(sources) |-> 0],
                order |-> sources,
                queue |-> sources]
        st == DagreLoop(ns, es, st0)
        rest == SelectSeq([i \in DOMAIN ns |-> ns[i].id], LAMBDA id : id \notin DOMAIN st.ranks)
    IN [ranks |-> [id \in DOMAIN st.ranks \cup Range(rest) |->
                      IF id \in DOMAIN st.ranks THEN st.ranks[id] ELSE 0],
        order |-> st.order \o rest]

dagreLayout(ns, es, opts) ==
    LET rankDir == opts.rankDirection
        nodeSpacing == Or(opts.spacing, 150)
        rankSpacing == 200
        r == DagreRanks(ns, es)
        ids == DOMAIN r.ranks
        group(rank) == SelectSeq(r.order, LAMBDA id : r.ranks[id] = rank)
        indexIn(id) == CHOOSE i \in 1..Len(r.order) : group(r.ranks[id])[i] = id
        isVertical == rankDir \in {"TB", "BT"}
        isReversed == rankDir \in {"BT", "RL"}
        maxRank == SetMax({r.ranks[id] : id \in ids})
        placed == [id \in ids |->
                    LET actualRank == IF isReversed THEN maxRank - r.ranks[id] ELSE r.ranks[id]
                        total == Len(group(r.ranks[id])) * nodeSpacing
                        index == indexIn(id) - 1
                    IN IF isVertical
                       THEN Place(NodeById(ns, id),
                                  100 + index * nodeSpacing - (total \div 2) + 500,
                                  100 + actualRank * rankSpacing, 150, 80)
                       ELSE Place(NodeById(ns, id),
                                  100 + actualRank * rankSpacing,
                                  100 + index * nodeSpacing - (total \div 2) + 300, 150, 80)]
    IN IF \E id \in ids : id \notin NodeIdSet(ns)
       THEN Thrown   \* nodeMap.get(nodeId)! is undefined: node.width throws
       ELSE [thrown |-> FALSE, nodes |-> placed, bounds |-> BoundsOf(placed), aux |-> r.ranks]

-----------------------------------------------------------------------------
(* radialLayout *)

\* connectionCounts.get(id) || 0
ConnectionCount(es, id) ==
    Cardinality({i \in DOMAIN es : es[i].from = id}) + Cardinality({i \in DOMAIN es : es[i].to = id})

\* [...nodes].sort((a, b) => count(b) - count(a)): stable, most connected first
SortedByCount(ns, es) ==
    LET c(i) == ConnectionCount(es, ns[i].id)
        pos(i) == 1 + Cardinality({j \in DOMAIN ns : c(j) > c(i) \/ (c(j) = c(i) /\ j < i)})
    IN [k \in DOMAIN ns |-> ns[CHOOSE i \in DOMAIN ns : pos(i) = k]]

\* Set.add over a sequence of candidates: insertion order, no duplicates
RECURSIVE AddAll(_, _)
AddAll(acc, cands) ==
    IF cands = <<>> THEN acc
    ELSE AddAll(IF Head(cands) \in Range(acc) THEN acc ELSE Append(acc, Head(cands)), Tail(cands))

\* the inner edges.forEach following the edges forwards only
NeighboursOfDirected(es, nodeId, visited) ==
    LET F[i \in 0..Len(es)] ==
            IF i = 0 THEN <<>>
            ELSE F[i - 1]
                 \o (IF es[i].from = nodeId /\ es[i].to \notin visited THEN <<es[i].to>> ELSE <<>>)
    IN F[Len(es)]

\* the ids the inner edges.forEach adds for one nodeId
NeighboursOf(es, nodeId, visited) ==
    LET F[i \in 0..Len(es)] ==
            IF i = 0 THEN <<>>
            ELSE F[i - 1]
                 \o (IF es[i].from = nodeId /\ es[i].to \notin visited THEN <<es[i].to>> ELSE <<>>)
                 \o (IF es[i].to = nodeId /\ es[i].from \notin visited THEN <<es[i].from>> ELSE <<>>)
    IN F[Len(es)]

RECURSIVE NextRing(_, _, _)
NextRing(es, currentNodes, visited) ==
    IF currentNodes = <<>> THEN <<>>
    ELSE NeighboursOf(es, Head(currentNodes), visited) \o NextRing(es, Tail(currentNodes), visited)

\* while (visited.size < nodes.length) { ... }
RECURSIVE RadialLoop(_, _, _, _, _)
RadialLoop(ns, es, currentNodes, visited, rings) ==
    IF ~(Cardinality(visited) < Len(ns)) THEN rings
    ELSE LET linked == AddAll(<<>>, NextRing(es, currentNodes, visited))
             unvisited == SelectSeq([i \in DOMAIN ns |-> ns[i].id], LAMBDA id : id \notin visited)
             nextNodes == IF linked = <<>> THEN AddAll(<<>>, unvisited) ELSE linked
         IN IF nextNodes # <<>>
            THEN RadialLoop(ns, es, nextNodes, visited \cup Range(nextNodes), Append(rings, nextNodes))
            ELSE rings

\* rings[k + 1] is the code's rings.get(k)
RadialRings(ns, es) ==
    LET sorted == SortedByCount(ns, es)
        hubCount == Min(3, (Len(ns) + 9) \div 10)   \* Math.min(3, Math.ceil(n * 0.1))
        hubs == [i \in 1..Min(hubCount, Len(sorted)) |-> sorted[i].id]
    IN RadialLoop(ns, es, hubs, Range(hubs), <<hubs>>)

radialLayout(ns, es, opts) ==
    LET centerX == Or(opts.centerX, 500)
        centerY == Or(opts.centerY, 400)
        rings == RadialRings(ns, es)
        ids == GroupIds(rings)
        placed == [id \in ids |->
                    LET gi == GroupOf(rings, id)
                        ringIndex == gi[1] - 1
                        count == Len(rings[gi[1]])
                        radius == IF ringIndex = 0 THEN 0 ELSE 100 + ringIndex * 150
                        node == NodeById(ns, id)
                        width == Or(node.width, 120)
                        height == Or(node.height, 80)
                        cs == CosSin(gi[2] - 1, count)
                    IN IF ringIndex = 0
                       THEN \* the hubs: never pinned; angle 2*pi*index/count, radius 30 or 0
                            [x |-> Polar(centerX, IF count > 1 THEN 30 ELSE 0,
                                         IF count > 1 THEN -cs.sin ELSE 1000) - (width \div 2),
                             y |-> Polar(centerY, IF count > 1 THEN 30 ELSE 0,
                                         IF count > 1 THEN cs.cos ELSE 0) - (height \div 2),
                             width |-> width, height |-> height]
                       ELSE Place(node,
                                  Polar(centerX, radius, cs.cos) - (width \div 2),
                                  Polar(centerY, radius, cs.sin) - (height \div 2), 120, 80)]
    IN IF \E id \in ids : id \notin NodeIdSet(ns)
       THEN Thrown   \* nodeMap.get(nodeId)! is undefined: node.width throws
       ELSE [thrown |-> FALSE, nodes |-> placed, bounds |-> BoundsOf(placed), aux |-> rings]

-----------------------------------------------------------------------------
(* forceDirectedLayout *)

\* Where the simulation leaves the free nodes.  The start is Math.random() and the
\* iteration is floating point: the outcome is a choice, clamped to the box
\* [50, 1950] x [50, 1450] the code keeps positions in.
SettleChoices == {[x |-> 400, y |-> 300], [x |-> 1800, y |-> 1450]}

forceDirectedLayout(ns, es, opts, settle) ==
    LET nth(id) == CHOOSE i \in DOMAIN ns : ns[i].id = id /\ \A j \in DOMAIN ns : ns[j].id = id => j <= i
        free(i) == [x |-> Max(50, Min(1950, settle.x + 100 * (i - 1))),
                    y |-> Max(50, Min(1450, settle.y))]
        \* a node with `fixed` is never moved: it stays where it was initialised
        pos(i) == IF ns[i].fixed
                  THEN [x |-> IF ns[i].hasX THEN ns[i].x ELSE 400 + settle.x \div 4,
                        y |-> IF ns[i].hasY THEN ns[i].y ELSE 300 + settle.y \div 4]
                  ELSE free(i)
        placed == [id \in NodeIdSet(ns) |->
                    LET node == ns[nth(id)]
                        width == Or(node.width, 150)
                        height == Or(node.height, 80)
                    IN [x |-> pos(nth(id)).x - (width \div 2),
                        y |-> pos(nth(id)).y - (height \div 2),
                        width |-> width, height |-> height]]
    IN IF \E i \in DOMAIN es : es[i].from \notin NodeIdSet(ns) \/ es[i].to \notin NodeIdSet(ns)
       THEN Thrown   \* positions.get(edge.from)! is undefined: pos1.x throws
       ELSE [thrown |-> FALSE, nodes |-> placed, bounds |-> BoundsOf(placed), aux |-> <<>>]

-----------------------------------------------------------------------------
(* Network topologies: lib/network-topologies.ts *)

\* NetworkNode: the device type is fixed per id (type is optional: "" is absent)
NetworkNode(id) ==
    [id |-> id, type |-> CASE id = "a" -> "router" [] id = "b" -> "" [] OTHER -> "client"]

NetworkNodeLists == {[i \in 1..n |-> NetworkNode(NodeOrder[i])] : n \in 0..Len(NodeOrder)}

\* getNodeStyleForType(type).shape
getNodeStyleForType(type) ==
    CASE type \in {"client", "database", "cloud"} -> "ellipse"
      [] type = "router" -> "diamond"
      [] OTHER -> "rectangle"

\* index (from 0) of id among the ids of ns
IndexIn(ns, id) == (CHOOSE i \in DOMAIN ns : ns[i].id = id) - 1

starTopology(ns, centerNodeId) ==
    LET peripheralNodes == SelectSeq(ns, LAMBDA n : n.id # centerNodeId)
        placed == [id \in NodeIdSet(ns) |->
                    IF id = centerNodeId
                    THEN [x |-> 500 - 60, y |-> 400 - 60, width |-> 120, height |-> 120]
                    ELSE LET cs == CosSin(IndexIn(peripheralNodes, id), Len(peripheralNodes))
                         IN [x |-> Polar(500, 250, cs.cos) - 50,
                             y |-> Polar(400, 250, cs.sin) - 50,
                             width |-> 100, height |-> 100]]
    IN IF centerNodeId \notin NodeIdSet(ns)
       THEN Thrown   \* throw new Error(`Center node ${centerNodeId} not found`)
       ELSE [thrown |-> FALSE, nodes |-> placed, bounds |-> BoundsOf(placed), aux |-> <<>>]

ringTopology(ns) ==
    LET placed == [id \in NodeIdSet(ns) |->
                    LET cs == CosSin(IndexIn(ns, id), Len(ns))
                    IN [x |-> Polar(500, 250, cs.cos) - 50,
                        y |-> Polar(400, 250, cs.sin) - 50,
                        width |-> 100, height |-> 100]]
    IN [thrown |-> FALSE, nodes |-> placed, bounds |-> BoundsOf(placed), aux |-> <<>>]

meshTopology(ns, links, settle) ==
    LET layoutNodes == [i \in DOMAIN ns |->
                          [PlainNode(ns[i].id) EXCEPT !.width = 100, !.height = 100]]
    IN forceDirectedLayout(layoutNodes, links, NoOptions, settle)

\* the root id and every id reached from it get a position, known to `nodes` or not
treeTopology(ns, links, rootNodeId) ==
    LET levels == TreeBFS(links, <<[id |-> rootNodeId, level |-> 0]>>, {}, <<>>)
        placed == [id \in GroupIds(levels) |->
                    LET gi == GroupOf(levels, id)
                        totalWidth == Len(levels[gi[1]]) * 180
                        startX == 500 - (totalWidth \div 2)
                    IN [x |-> startX + (gi[2] - 1) * 180,
                        y |-> 100 + (gi[1] - 1) * 150,
                        width |-> 100, height |-> 100]]
    IN [thrown |-> FALSE, nodes |-> placed, bounds |-> BoundsOf(placed), aux |-> levels]

busTopology(ns) ==
    LET spacing == (1800 - 200) \div Max(Len(ns) - 1, 1)
        placed == [id \in NodeIdSet(ns) |->
                    [x |-> 200 + IndexIn(ns, id) * spacing - 50,
                     y |-> 400 - 150 - 50,
                     width |-> 100, height |-> 100]]
    IN [thrown |-> FALSE, nodes |-> placed,
        bounds |-> [width |-> Max(BoundsOf(placed).width - 100, 1800) + 100, height |-> 400 + 100],
        aux |-> <<>>]

-----------------------------------------------------------------------------
(* The canvas a tool handler writes to, and the element creators *)

EmptyCtx ==
    [elements |-> <<>>, connections |-> <<>>, shapeRegistry |-> EmptyMap,
     shapeData |-> EmptyMap, idCount |-> 0]

NoCall ==
    [handler |-> "none", hasNodes |-> FALSE, nodes |-> <<>>, links |-> <<>>, topology |-> "",
     centerNodeId |-> "", rootNodeId |-> "", layout |-> "", layoutOptions |-> NoOptions]

NoResult == [status |-> "none", success |-> FALSE, message |-> ""]

LayoutIdle ==
    /\ nodes = <<>> /\ edges = <<>> /\ options = NoOptions
    /\ layout = NoLayout /\ again = NoLayout

HandlersIdle == args = NoCall /\ ctx = EmptyCtx /\ result = NoResult

Returned(success, message) == [status |-> "returned", success |-> success, message |-> message]

\* the handler did not return: an exception left it
Raised == [status |-> "thrown", success |-> FALSE, message |-> "TypeError"]

createShapeElement(type, x, y, width, height) ==
    [type |-> type, x |-> x, y |-> y, width |-> width, height |-> height]

createTextElement(x, y, width, height) ==
    [type |-> "text", x |-> x, y |-> y, width |-> width, height |-> height]

createLineElement(x1, y1, x2, y2) ==
    [type |-> "line", x |-> x1, y |-> y1, width |-> x2 - x1, height |-> y2 - y1]

createArrowElement(x1, y1, x2, y2) ==
    [type |-> "arrow", x |-> x1, y |-> y1, width |-> x2 - x1, height |-> y2 - y1]

\* ctx.addElementMutation(element)
addElementMutation(c, element) == [c EXCEPT !.elements = Append(@, element)]

\* ctx.addConnectionMutation(connection)
addConnectionMutation(c, conn) == [c EXCEPT !.connections = Append(@, conn)]

\* a handler that records the element id and forgets the shape's data
RegisterElementOnly(c, nodeId, elementId, position, type) ==
    [c EXCEPT !.shapeRegistry = MapSet(@, nodeId, elementId)]

\* shapeRegistryRef.current.set and shapeDataRef.current.set for one node
Register(c, nodeId, elementId, position, type) ==
    [c EXCEPT !.shapeRegistry = MapSet(@, nodeId, elementId),
              !.shapeData = MapSet(@, nodeId,
                    [x |-> position.x, y |-> position.y, width |-> position.width,
                     height |-> position.height, type |-> type])]

CenterX(pos) == pos.x + (pos.width \div 2)

CenterY(pos) == pos.y + (pos.height \div 2)

-----------------------------------------------------------------------------
(* handleCreateNetworkDiagram *)

\* the handle pair of a link: the horizontal pair only when |dx| > |dy|
NetworkLinkHandles(fromPos, toPos) ==
    LET dx == CenterX(toPos) - CenterX(fromPos)
        dy == CenterY(toPos) - CenterY(fromPos)
    IN IF Abs(dx) > Abs(dy)
       THEN [sourceHandle |-> IF dx > 0 THEN "right" ELSE "left",
             targetHandle |-> IF dx > 0 THEN "left" ELSE "right"]
       ELSE [sourceHandle |-> IF dy > 0 THEN "bottom" ELSE "top",
             targetHandle |-> IF dy > 0 THEN "top" ELSE "bottom"]

\* "Create nodes": a shape, both registries and a label per node that has a position
RECURSIVE NetworkCreateNodes(_, _, _, _)
NetworkCreateNodes(ns, i, positions, acc) ==
    IF i > Len(ns) THEN acc
    ELSE IF ns[i].id \notin DOMAIN positions
    THEN NetworkCreateNodes(ns, i + 1, positions, acc)
    ELSE LET node == ns[i]
             position == positions[node.id]
             elementId == acc.ctx.idCount + 1
             shape == getNodeStyleForType(node.type)
             c1 == addElementMutation([acc.ctx EXCEPT !.idCount = elementId],
                       createShapeElement(shape, position.x, position.y,
                                          position.width, position.height))
             c2 == Register(c1, node.id, elementId, position, shape)
             c3 == addElementMutation(c2,
                       createTextElement(position.x + 10,
                                         position.y + (position.height \div 2) - 10,
                                         position.width - 20, 20))
         IN NetworkCreateNodes(ns, i + 1, positions,
                [ctx |-> c3, created |-> MapSet(acc.created, node.id, elementId)])

\* "Create connections using SmartConnections"
RECURSIVE NetworkCreateLinks(_, _, _, _, _)
NetworkCreateLinks(links, i, positions, created, c) ==
    IF i > Len(links) THEN c
    ELSE LET link == links[i]
         IN IF \/ link.from \notin DOMAIN positions \/ link.to \notin DOMAIN positions
               \/ link.from \notin DOMAIN created \/ link.to \notin DOMAIN created
            THEN NetworkCreateLinks(links, i + 1, positions, created, c)
            ELSE NetworkCreateLinks(links, i + 1, positions, created,
                    addConnectionMutation(c,
                        [sourceId |-> created[link.from], targetId |-> created[link.to],
                         pathType |-> "straight"]
                        @@ NetworkLinkHandles(positions[link.from], positions[link.to])))

\* the variant of the switch that takes the first node when the hub id is missing
NetworkLayoutInferred(a, settle) ==
    LET first == IF a.nodes = <<>> THEN "" ELSE a.nodes[1].id
    IN [early |-> "",
        layout |-> CASE a.topology = "star" ->
                          starTopology(a.nodes, IF a.centerNodeId = "" THEN first ELSE a.centerNodeId)
                     [] a.topology = "tree" ->
                          treeTopology(a.nodes, a.links, IF a.rootNodeId = "" THEN first ELSE a.rootNodeId)
                     [] a.topology = "ring" -> ringTopology(a.nodes)
                     [] a.topology = "mesh" -> meshTopology(a.nodes, a.links, settle)
                     [] a.topology = "bus" -> busTopology(a.nodes)
                     [] OTHER -> IF a.nodes = <<>> THEN Thrown ELSE starTopology(a.nodes, first)]

\* the try { switch (args.topology) ... }: an early return, or the layout (maybe Thrown)
NetworkLayout(a, settle) ==
    CASE a.topology = "star" ->
            IF a.centerNodeId = ""
            THEN [early |-> "Star topology requires centerNodeId parameter", layout |-> Thrown]
            ELSE [early |-> "", layout |-> starTopology(a.nodes, a.centerNodeId)]
      [] a.topology = "ring" -> [early |-> "", layout |-> ringTopology(a.nodes)]
      [] a.topology = "mesh" -> [early |-> "", layout |-> meshTopology(a.nodes, a.links, settle)]
      [] a.topology = "tree" ->
            IF a.rootNodeId = ""
            THEN [early |-> "Tree topology requires rootNodeId parameter", layout |-> Thrown]
            ELSE [early |-> "", layout |-> treeTopology(a.nodes, a.links, a.rootNodeId)]
      [] a.topology = "bus" -> [early |-> "", layout |-> busTopology(a.nodes)]
      [] OTHER ->
            \* default: starTopology(args.nodes, args.nodes[0].id); nodes[0] of [] throws
            [early |-> "",
             layout |-> IF a.nodes = <<>> THEN Thrown ELSE starTopology(a.nodes, a.nodes[1].id)]

\* the bus backbone, and the success result
NetworkDone(a, c) ==
    [result |-> Returned(TRUE, "Created network topology"),
     ctx |-> IF a.topology = "bus"
             THEN addElementMutation(c, createLineElement(200, 400, 1800, 400))
             ELSE c]

NetworkConnect(a, positions, made) ==
    NetworkDone(a, NetworkCreateLinks(a.links, 1, positions, made.created, made.ctx))

\* what follows the try block: nodes, then links
NetworkDraw(a, c, chosen) ==
    IF chosen.early # ""
    THEN [result |-> Returned(FALSE, chosen.early), ctx |-> c]
    ELSE IF chosen.layout.thrown
    THEN [result |-> Returned(FALSE, "Layout error"), ctx |-> c]
    ELSE NetworkConnect(a, chosen.layout.nodes,
             NetworkCreateNodes(a.nodes, 1, chosen.layout.nodes,
                                [ctx |-> c, created |-> EmptyMap]))

handleCreateNetworkDiagram(a, c, settle) ==
    IF ~a.hasNodes
    THEN [result |-> Returned(FALSE, "Invalid input: nodes array is required"), ctx |-> c]
    ELSE NetworkDraw(a, c, NetworkLayout(a, settle))

\* lib/ai-chat/tool-handlers/diagram-handlers.ts: links become line elements
RECURSIVE LegacyNetworkCreateLinks(_, _, _, _)
LegacyNetworkCreateLinks(links, i, positions, c) ==
    IF i > Len(links) THEN c
    ELSE LET link == links[i]
         IN IF link.from \notin DOMAIN positions \/ link.to \notin DOMAIN positions
            THEN LegacyNetworkCreateLinks(links, i + 1, positions, c)
            ELSE LegacyNetworkCreateLinks(links, i + 1, positions,
                    addElementMutation(c,
                        createLineElement(CenterX(positions[link.from]), CenterY(positions[link.from]),
                                          CenterX(positions[link.to]), CenterY(positions[link.to]))))

LegacyNetworkDraw(a, c, chosen) ==
    IF chosen.early # ""
    THEN [result |-> Returned(FALSE, chosen.early), ctx |-> c]
    ELSE IF chosen.layout.thrown
    THEN [result |-> Returned(FALSE, "Layout error"), ctx |-> c]
    ELSE NetworkDone(a,
             LegacyNetworkCreateLinks(a.links, 1, chosen.layout.nodes,
                 NetworkCreateNodes(a.nodes, 1, chosen.layout.nodes,
                                    [ctx |-> c, created |-> EmptyMap]).ctx))

LegacyHandleCreateNetworkDiagram(a, c, settle) ==
    IF ~a.hasNodes
    THEN [result |-> Returned(FALSE, "Invalid input: nodes array is required"), ctx |-> c]
    ELSE LegacyNetworkDraw(a, c, NetworkLayout(a, settle))

-----------------------------------------------------------------------------
(* handleCreateDiagram *)

\* switch (args.layout), with its default branch
DiagramLayout(a, settle) ==
    CASE a.layout = "tree" -> treeLayout(a.nodes, a.links, a.layoutOptions)
      [] a.layout = "circular" -> circularLayout(a.nodes, a.links, a.layoutOptions)
      [] a.layout = "grid" -> gridLayout(a.nodes, a.links, a.layoutOptions)
      [] a.layout = "force-directed" -> forceDirectedLayout(a.nodes, a.links, a.layoutOptions, settle)
      [] OTHER -> treeLayout(a.nodes, a.links, a.layoutOptions)

\* the handle pair of an edge: the horizontal pair only when |dx| > |dy|
DiagramEdgeHandles(fromPos, toPos) ==
    LET dx == CenterX(toPos) - CenterX(fromPos)
        dy == CenterY(toPos) - CenterY(fromPos)
    IN IF Abs(dx) > Abs(dy)
       THEN [sourceHandle |-> IF dx > 0 THEN "right" ELSE "left",
             targetHandle |-> IF dx > 0 THEN "left" ELSE "right"]
       ELSE [sourceHandle |-> IF dy > 0 THEN "bottom" ELSE "top",
             targetHandle |-> IF dy > 0 THEN "top" ELSE "bottom"]

\* "Create nodes": layoutResult.nodes.get(node.id)! of a node the layout did not
\* place is undefined, and reading position.x throws after the earlier nodes were added
RECURSIVE DiagramCreateNodes(_, _, _, _)
DiagramCreateNodes(ns, i, positions, acc) ==
    IF i > Len(ns) THEN acc
    ELSE IF ns[i].id \notin DOMAIN positions
    THEN [acc EXCEPT !.thrown = TRUE]
    ELSE LET node == ns[i]
             position == positions[node.id]
             elementId == acc.ctx.idCount + 1
             c1 == addElementMutation([acc.ctx EXCEPT !.idCount = elementId],
                       createShapeElement("rectangle", position.x, position.y,
                                          position.width, position.height))
             c2 == Register(c1, node.id, elementId, position, "rectangle")
         IN DiagramCreateNodes(ns, i + 1, positions,
                [acc EXCEPT !.ctx = c2, !.created = MapSet(acc.created, node.id, elementId)])

\* "Create edges using SmartConnections"
RECURSIVE DiagramCreateEdges(_, _, _, _, _)
DiagramCreateEdges(es, i, positions, created, c) ==
    IF i > Len(es) THEN c
    ELSE LET edge == es[i]
         IN IF \/ edge.from \notin DOMAIN positions \/ edge.to \notin DOMAIN positions
               \/ edge.from \notin DOMAIN created \/ edge.to \notin DOMAIN created
            THEN DiagramCreateEdges(es, i + 1, positions, created, c)
            ELSE DiagramCreateEdges(es, i + 1, positions, created,
                    addConnectionMutation(c,
                        [sourceId |-> created[edge.from], targetId |-> created[edge.to],
                         pathType |-> "smoothstep"]
                        @@ DiagramEdgeHandles(positions[edge.from], positions[edge.to])))

DiagramConnect(a, positions, made) ==
    IF made.thrown
    THEN [result |-> Raised, ctx |-> made.ctx]
    ELSE [result |-> Returned(TRUE, "Created diagram"),
          ctx |-> DiagramCreateEdges(a.links, 1, positions, made.created, made.ctx)]

\* what follows the switch: nodes, then edges
DiagramDraw(a, c, layoutResult) ==
    IF layoutResult.thrown
    THEN [result |-> Raised, ctx |-> c]
    ELSE DiagramConnect(a, layoutResult.nodes,
             DiagramCreateNodes(a.nodes, 1, layoutResult.nodes,
                                [ctx |-> c, created |-> EmptyMap, thrown |-> FALSE]))

handleCreateDiagram(a, c, settle) ==
    IF ~a.hasNodes
    THEN [result |-> Returned(FALSE, "Invalid input: nodes array is required"), ctx |-> c]
    ELSE DiagramDraw(a, c, DiagramLayout(a, settle))

\* lib/ai-chat/tool-handlers/diagram-handlers.ts: edges become arrow elements, and
\* layoutResult.nodes.get(edge.from)! of an unplaced id throws at fromPos.x
RECURSIVE LegacyDiagramCreateEdges(_, _, _, _)
LegacyDiagramCreateEdges(es, i, positions, acc) ==
    IF i > Len(es) THEN acc
    ELSE LET edge == es[i]
         IN IF edge.from \notin DOMAIN positions \/ edge.to \notin DOMAIN positions
            THEN [acc EXCEPT !.thrown = TRUE]
            ELSE LegacyDiagramCreateEdges(es, i + 1, positions,
                    [acc EXCEPT !.ctx = addElementMutation(@,
                        createArrowElement(CenterX(positions[edge.from]), CenterY(positions[edge.from]),
                                           CenterX(positions[edge.to]), CenterY(positions[edge.to])))])

LegacyDiagramDone(drawn) ==
    IF drawn.thrown
    THEN [result |-> Raised, ctx |-> drawn.ctx]
    ELSE [result |-> Returned(TRUE, "Created diagram"), ctx |-> drawn.ctx]

LegacyDiagramConnect(a, positions, made) ==
    IF made.thrown
    THEN [result |-> Raised, ctx |-> made.ctx]
    ELSE LegacyDiagramDone(LegacyDiagramCreateEdges(a.links, 1, positions, made))

LegacyDiagramDraw(a, c, layoutResult) ==
    IF layoutResult.thrown
    THEN [result |-> Raised, ctx |-> c]
    ELSE LegacyDiagramConnect(a, layoutResult.nodes,
             DiagramCreateNodes(a.nodes, 1, layoutResult.nodes,
                                [ctx |-> c, created |-> EmptyMap, thrown |-> FALSE]))

LegacyHandleCreateDiagram(a, c, settle) ==
    IF ~a.hasNodes
    THEN [result |-> Returned(FALSE, "Invalid input: nodes array is required"), ctx |-> c]
    ELSE LegacyDiagramDraw(a, c, DiagramLayout(a, settle))

-----------------------------------------------------------------------------
(* beautifyDiagram: lib/diagram-analysis.ts *)

\* an update of beautifyDiagram: { id, x } or { id, x, y }
UpdateX(id, x) == [id |-> id, x |-> x, hasY |-> FALSE, y |-> 0]

UpdateXY(id, x, y) == [id |-> id, x |-> x, hasY |-> TRUE, y |-> y]

IsShape(e) == e.type \in {"rectangle", "ellipse", "diamond"}

\* the boxes share more than a border
isOverlappingInside(a, b) ==
    ~(a.x + a.width <= b.x \/ b.x + b.width <= a.x \/ a.y + a.height <= b.y \/ b.y + b.height <= a.y)

isOverlapping(a, b) ==
    ~(a.x + a.width < b.x \/ b.x + b.width < a.x \/ a.y + a.height < b.y \/ b.y + b.height < a.y)

\* the square of getDistance(a, b); widths and heights are even, so centres are whole
DistanceSquared(a, b) ==
    (CenterX(b) - CenterX(a)) * (CenterX(b) - CenterX(a))
        + (CenterY(b) - CenterY(a)) * (CenterY(b) - CenterY(a))

\* Math.round(sum / n) for sum >= 0, n > 0
RoundDiv(sum, n) == (2 * sum + n) \div (2 * n)

\* Math.round(MIN_SPACING * delta / sqrt(d2)): the component of the push along one
\* axis, cos(angle) * 80 or sin(angle) * 80 with angle = atan2(dy, dx)
RoundPush(delta, d2) ==
    IF delta >= 0
    THEN CHOOSE k \in 0..80 :
            /\ k = 0 \/ (2 * k - 1) * (2 * k - 1) * d2 <= 160 * delta * 160 * delta
            /\ 160 * delta * 160 * delta < (2 * k + 1) * (2 * k + 1) * d2
    ELSE 0 - (CHOOSE k \in 0..80 :
            /\ k = 0 \/ (2 * k - 1) * (2 * k - 1) * d2 < 160 * delta * 160 * delta
            /\ 160 * delta * 160 * delta <= (2 * k + 1) * (2 * k + 1) * d2)

\* the alignment groups: a shape joins the first group whose first member is
\* within ALIGNMENT_THRESHOLD of its x
RECURSIVE BeautifyGroups(_, _, _)
BeautifyGroups(shapes, i, groups) ==
    IF i > Len(shapes) THEN groups
    ELSE LET near == {g \in DOMAIN groups : Abs(shapes[i].x - groups[g][1].x) < 15}
         IN IF near = {}
            THEN BeautifyGroups(shapes, i + 1, Append(groups, <<shapes[i]>>))
            ELSE LET g == CHOOSE h \in near : \A o \in near : h <= o
                 IN BeautifyGroups(shapes, i + 1, [groups EXCEPT ![g] = Append(@, shapes[i])])

RECURSIVE SumX(_)
SumX(group) == IF group = <<>> THEN 0 ELSE Head(group).x + SumX(Tail(group))

\* "Align horizontally": an update for every member within the threshold of the mean
AlignGroup(group) ==
    LET close == SelectSeq(group, LAMBDA s : Abs(s.x * Len(group) - SumX(group)) < 15 * Len(group))
    IN IF Len(group) >= 2
       THEN [k \in DOMAIN close |-> UpdateX(close[k].id, RoundDiv(SumX(group), Len(group)))]
       ELSE <<>>

RECURSIVE AlignUpdates(_)
AlignUpdates(groups) ==
    IF groups = <<>> THEN <<>> ELSE AlignGroup(Head(groups)) \o AlignUpdates(Tail(groups))

\* "Fix spacing": b is moved to MIN_SPACING from a along the line of centres
SpacingUpdate(a, b) ==
    IF DistanceSquared(a, b) < 80 * 80 /\ ~isOverlapping(a, b)
    THEN <<UpdateXY(b.id,
                    CenterX(a) + RoundPush(CenterX(b) - CenterX(a), DistanceSquared(a, b))
                        - (b.width \div 2),
                    CenterY(a) + RoundPush(CenterY(b) - CenterY(a), DistanceSquared(a, b))
                        - (b.height \div 2))>>
    ELSE <<>>

RECURSIVE SpacingUpdates(_, _, _)
SpacingUpdates(shapes, i, j) ==
    IF i > Len(shapes) THEN <<>>
    ELSE IF j > Len(shapes) THEN SpacingUpdates(shapes, i + 1, i + 2)
    ELSE SpacingUpdate(shapes[i], shapes[j]) \o SpacingUpdates(shapes, i, j + 1)

beautifyDiagram(els) ==
    AlignUpdates(BeautifyGroups(SelectSeq(els, IsShape), 1, <<>>))
        \o SpacingUpdates(SelectSeq(els, IsShape), 1, 2)

\* ctx.updateElements(updates): each update is merged into the element with its id
RECURSIVE updateElements(_, _)
updateElements(els, ups) ==
    IF ups = <<>> THEN els
    ELSE updateElements(
            [k \in DOMAIN els |->
                IF els[k].id = Head(ups).id
                THEN [els[k] EXCEPT !.x = Head(ups).x,
                                    !.y = IF Head(ups).hasY THEN Head(ups).y ELSE @]
                ELSE els[k]],
            Tail(ups))

\* handleBeautifyDiagram: the canvas after the call
handleBeautifyDiagram(els) ==
    IF Len(beautifyDiagram(els)) > 0 THEN updateElements(els, beautifyDiagram(els)) ELSE els

MaxShapes == 3

MaxPasses == 2

\* what may be on the canvas: small and large shapes, aligned, nearly aligned,
\* close together, far apart; and a text element, which is not a shape
ElementChoices ==
    {[type |-> "rectangle", x |-> 100, y |-> 0, width |-> 20, height |-> 20],
     [type |-> "ellipse", x |-> 110, y |-> 50, width |-> 20, height |-> 20],
     [type |-> "rectangle", x |-> 100, y |-> 50, width |-> 20, height |-> 20],
     [type |-> "diamond", x |-> 130, y |-> 40, width |-> 20, height |-> 20],
     [type |-> "rectangle", x |-> 300, y |-> 300, width |-> 150, height |-> 80],
     [type |-> "text", x |-> 100, y |-> 0, width |-> 20, height |-> 20]}

\* the elements get the ids 1, 2, ... in canvas order
Canvases ==
    {[k \in DOMAIN s |-> [id |-> k] @@ s[k]] : s \in SeqsUpTo(ElementChoices, MaxShapes)}

BeautifyIdle == canvas = <<>> /\ updates = <<>> /\ passes = 0

-----------------------------------------------------------------------------
(* Smart connector paths: lib/tools/diagram-tools.ts *)

\* Math.sqrt in whole units: exact on a perfect square, rounded down otherwise
Sqrt(n) == CHOOSE k \in 0..1000 : k * k <= n /\ n < (k + 1) * (k + 1)

\* a path is the sequence of its SVG commands; c holds the control points
Cmd(op, c, p) == [op |-> op, c |-> c, x |-> p.x, y |-> p.y]

getElementAnchor(element, handle) ==
    CASE handle = "top" -> [x |-> CenterX(element), y |-> element.y]
      [] handle = "bottom" -> [x |-> CenterX(element), y |-> element.y + element.height]
      [] handle = "left" -> [x |-> element.x, y |-> CenterY(element)]
      [] handle = "right" -> [x |-> element.x + element.width, y |-> CenterY(element)]
      [] OTHER -> [x |-> CenterX(element), y |-> CenterY(element)]

\* the vertical pair only when |dy| > |dx|: a tie gives the horizontal pair
autoHandlePositions(source, target) ==
    LET dx == CenterX(target) - CenterX(source)
        dy == CenterY(target) - CenterY(source)
    IN IF Abs(dy) > Abs(dx)
       THEN IF dy > 0 THEN [sourceHandle |-> "bottom", targetHandle |-> "top"]
                      ELSE [sourceHandle |-> "top", targetHandle |-> "bottom"]
       ELSE IF dx > 0 THEN [sourceHandle |-> "right", targetHandle |-> "left"]
                      ELSE [sourceHandle |-> "left", targetHandle |-> "right"]

getControlPointDirection(handle) ==
    CASE handle = "top" -> [dx |-> 0, dy |-> -1]
      [] handle = "bottom" -> [dx |-> 0, dy |-> 1]
      [] handle = "left" -> [dx |-> -1, dy |-> 0]
      [] handle = "right" -> [dx |-> 1, dy |-> 0]
      [] OTHER -> [dx |-> 0, dy |-> 0]

\* a point moved by offset along the direction of a handle
Stepped(p, handle, offset) ==
    [x |-> p.x + getControlPointDirection(handle).dx * offset,
     y |-> p.y + getControlPointDirection(handle).dy * offset]

BezierOffset(s, t) ==
    Min(Sqrt((t.x - s.x) * (t.x - s.x) + (t.y - s.y) * (t.y - s.y)) \div 2, 100)

getBezierPath(s, t, sourceHandle, targetHandle) ==
    [path |-> <<Cmd("M", <<>>, s),
                Cmd("C", <<Stepped(s, sourceHandle, BezierOffset(s, t)),
                           Stepped(t, targetHandle, BezierOffset(s, t))>>, t)>>,
     labelX |-> (s.x + 3 * Stepped(s, sourceHandle, BezierOffset(s, t)).x
                     + 3 * Stepped(t, targetHandle, BezierOffset(s, t)).x + t.x) \div 8,
     labelY |-> (s.y + 3 * Stepped(s, sourceHandle, BezierOffset(s, t)).y
                     + 3 * Stepped(t, targetHandle, BezierOffset(s, t)).y + t.y) \div 8]

SegmentLength(p, q) == Sqrt((q.x - p.x) * (q.x - p.x) + (q.y - p.y) * (q.y - p.y))

\* the clamp dropped: the requested radius is used as it is
ArcRadiusUnclamped(radius, len1, len2) == radius

\* maxRadius = Math.min(len1, len2) / 2; r = Math.min(radius, maxRadius)
ArcRadius(radius, len1, len2) == Min(radius, Min(len1, len2) \div 2)

\* the point at distance r from `from` towards `to`, len being their distance
Towards(from, to, r, len) ==
    [x |-> from.x + ((to.x - from.x) * r) \div len,
     y |-> from.y + ((to.y - from.y) * r) \div len]

\* the commands for the interior vertex i: a plain corner when a neighbouring
\* segment has length 0, otherwise a line to the arc start and the arc
RoundedCorner(prev, curr, next, radius) ==
    IF SegmentLength(prev, curr) = 0 \/ SegmentLength(curr, next) = 0
    THEN <<Cmd("L", <<>>, curr)>>
    ELSE <<Cmd("L", <<>>,
               Towards(curr, prev,
                       ArcRadius(radius, SegmentLength(prev, curr), SegmentLength(curr, next)),
                       SegmentLength(prev, curr))),
           Cmd("Q", <<curr>>,
               Towards(curr, next,
                       ArcRadius(radius, SegmentLength(prev, curr), SegmentLength(curr, next)),
                       SegmentLength(curr, next)))>>

RECURSIVE RoundedCorners(_, _, _)
RoundedCorners(pts, radius, i) ==
    IF i > Len(pts) - 1 THEN <<>>
    ELSE RoundedCorner(pts[i - 1], pts[i], pts[i + 1], radius) \o RoundedCorners(pts, radius, i + 1)

\* the variant that stops at the end of the last arc
buildRoundedPathOpen(pts, radius) ==
    IF Len(pts) < 2 THEN <<>>
    ELSE <<Cmd("M", <<>>, pts[1])>> \o RoundedCorners(pts, radius, 2)

\* "" is the empty sequence of commands
buildRoundedPath(pts, radius) ==
    IF Len(pts) < 2 THEN <<>>
    ELSE IF Len(pts) = 2 THEN <<Cmd("M", <<>>, pts[1]), Cmd("L", <<>>, pts[2])>>
    ELSE <<Cmd("M", <<>>, pts[1])>> \o RoundedCorners(pts, radius, 2)
             \o <<Cmd("L", <<>>, pts[Len(pts)])>>

\* the four points of getSmoothStepPath
SmoothStepPoints(s, t, sourceHandle, targetHandle) ==
    IF <<sourceHandle, targetHandle>> \in {<<"bottom", "top">>, <<"top", "bottom">>}
    THEN <<s, [x |-> s.x, y |-> s.y + (t.y - s.y) \div 2],
              [x |-> t.x, y |-> s.y + (t.y - s.y) \div 2], t>>
    ELSE IF <<sourceHandle, targetHandle>> \in {<<"right", "left">>, <<"left", "right">>}
    THEN <<s, [x |-> s.x + (t.x - s.x) \div 2, y |-> s.y],
              [x |-> s.x + (t.x - s.x) \div 2, y |-> t.y], t>>
    ELSE <<s, Stepped(s, sourceHandle, (Max(Abs(t.x - s.x), Abs(t.y - s.y)) * 3) \div 10 + 20),
              Stepped(t, targetHandle, (Max(Abs(t.x - s.x), Abs(t.y - s.y)) * 3) \div 10 + 20), t>>

SmoothStepResult(pts, borderRadius) ==
    [path |-> buildRoundedPath(pts, borderRadius),
     labelX |-> (pts[2].x + pts[3].x) \div 2,
     labelY |-> (pts[2].y + pts[3].y) \div 2]

getSmoothStepPath(s, t, sourceHandle, targetHandle, borderRadius) ==
    SmoothStepResult(SmoothStepPoints(s, t, sourceHandle, targetHandle), borderRadius)

getStraightPath(s, t) ==
    [path |-> <<Cmd("M", <<>>, s), Cmd("L", <<>>, t)>>,
     labelX |-> (s.x + t.x) \div 2,
     labelY |-> (s.y + t.y) \div 2]

\* the angle, as the pair atan2 is applied to
getPathEndAngle(s, t, pathType, targetHandle) ==
    IF pathType = "straight" \/ getControlPointDirection(targetHandle) = [dx |-> 0, dy |-> 0]
    THEN [dy |-> t.y - s.y, dx |-> t.x - s.x]
    ELSE [dy |-> 0 - getControlPointDirection(targetHandle).dy,
          dx |-> 0 - getControlPointDirection(targetHandle).dx]

\* elements.find((el) => el.id === id)
HasElement(els, id) == \E k \in DOMAIN els : els[k].id = id

FindElement(els, id) ==
    els[CHOOSE k \in DOMAIN els : els[k].id = id /\ \A j \in DOMAIN els : els[j].id = id => k <= j]

NoPath ==
    [called |-> FALSE, isNull |-> TRUE, path |-> <<>>, labelX |-> 0, labelY |-> 0,
     sourceX |-> 0, sourceY |-> 0, targetX |-> 0, targetY |-> 0,
     endAngle |-> [dy |-> 0, dx |-> 0], startAngle |-> [dy |-> 0, dx |-> 0]]

\* the handles after "Auto-determine handles if not specified" ("" is not specified)
ResolveHandles(source, target, conn) ==
    IF conn.sourceHandle = "" \/ conn.targetHandle = ""
    THEN [sourceHandle |-> IF conn.sourceHandle = ""
                           THEN autoHandlePositions(source, target).sourceHandle
                           ELSE conn.sourceHandle,
          targetHandle |-> IF conn.targetHandle = ""
                           THEN autoHandlePositions(source, target).targetHandle
                           ELSE conn.targetHandle]
    ELSE [sourceHandle |-> conn.sourceHandle, targetHandle |-> conn.targetHandle]

\* switch (pathType), and the values returned around its result
RoutePath(s, t, handles, pathType) ==
    [called |-> TRUE, isNull |-> FALSE,
     sourceX |-> s.x, sourceY |-> s.y, targetX |-> t.x, targetY |-> t.y,
     endAngle |-> getPathEndAngle(s, t, pathType, handles.targetHandle),
     startAngle |-> getPathEndAngle(t, s, pathType, handles.sourceHandle)]
    @@ CASE pathType = "bezier" -> getBezierPath(s, t, handles.sourceHandle, handles.targetHandle)
         [] pathType = "straight" -> getStraightPath(s, t)
         [] OTHER -> getSmoothStepPath(s, t, handles.sourceHandle, handles.targetHandle, 8)

RouteBetween(source, target, handles, pathType) ==
    RoutePath(getElementAnchor(source, handles.sourceHandle),
              getElementAnchor(target, handles.targetHandle), handles, pathType)

generateConnectorPath(els, conn) ==
    IF ~HasElement(els, conn.sourceId) \/ ~HasElement(els, conn.targetId)
    THEN [NoPath EXCEPT !.called = TRUE]
    ELSE RouteBetween(FindElement(els, conn.sourceId), FindElement(els, conn.targetId),
                      ResolveHandles(FindElement(els, conn.sourceId),
                                     FindElement(els, conn.targetId), conn),
                      IF conn.pathType = "" THEN "smoothstep" ELSE conn.pathType)

HandleChoices == {"", "top", "right", "bottom", "left"}

PathTypeChoices == {"", "bezier", "smoothstep", "straight"}

SourceElement == [id |-> "s", type |-> "rectangle", x |-> 100, y |-> 100, width |-> 120, height |-> 60]

\* the target: to the right, below, on the diagonal, up and to the left, on the source
TargetElements ==
    {[id |-> "t", type |-> "ellipse", x |-> 400, y |-> 110, width |-> 80, height |-> 80],
     [id |-> "t", type |-> "rectangle", x |-> 120, y |-> 400, width |-> 120, height |-> 60],
     [id |-> "t", type |-> "rectangle", x |-> 300, y |-> 300, width |-> 120, height |-> 60],
     [id |-> "t", type |-> "diamond", x |-> 0, y |-> 10, width |-> 40, height |-> 40],
     [id |-> "t", type |-> "rectangle", x |-> 100, y |-> 100, width |-> 120, height |-> 60]}

ShapeLists == {<<SourceElement>>} \cup {<<SourceElement, t>> : t \in TargetElements}

ConnectionChoices ==
    [sourceId : {"s", "gone"}, targetId : {"t"}, sourceHandle : HandleChoices,
     targetHandle : HandleChoices, pathType : PathTypeChoices]

NoConnection ==
    [sourceId |-> "", targetId |-> "", sourceHandle |-> "", targetHandle |-> "", pathType |-> ""]

ConnectorIdle == elements = <<>> /\ connection = NoConnection /\ routed = NoPath

MaxPoints == 4

PointChoices ==
    {[x |-> 0, y |-> 0], [x |-> 60, y |-> 0], [x |-> 60, y |-> 80],
     [x |-> 0, y |-> 80], [x |-> 20, y |-> 0], [x |-> 60, y |-> 40]}

RadiusChoices == {0, 5, 40}

\* the distance of p and q is a whole number
WholeLength(p, q) ==
    SegmentLength(p, q) * SegmentLength(p, q)
        = (q.x - p.x) * (q.x - p.x) + (q.y - p.y) * (q.y - p.y)

\* the polylines tried: segments along an axis or along a 3-4-5 diagonal
Polylines ==
    {pts \in SeqsUpTo(PointChoices, MaxPoints) :
        \A i \in 1..Len(pts) - 1 : WholeLength(pts[i], pts[i + 1])}

NoRounded == [called |-> FALSE, path |-> <<>>]

RoundedIdle == polyline = <<>> /\ requested = 0 /\ rounded = NoRounded

-----------------------------------------------------------------------------
(* analyzeDiagram: lib/diagram-analysis.ts.  An issue keeps its type, its  *)
(* severity and its element ids; the description and suggestion texts are  *)
(* left out.                                                               *)

IsConnection(e) == e.type \in {"arrow", "line"}

Issue(type, severity, ids) == [type |-> type, severity |-> severity, elementIds |-> ids]

\* checkOverlaps: the loops `for i, for j = i + 1` over the shapes
checkOverlaps(els) ==
    LET shapes == SelectSeq(els, IsShape)
        RECURSIVE From(_, _)
        From(i, j) ==
            IF i > Len(shapes) THEN <<>>
            ELSE IF j > Len(shapes) THEN From(i + 1, i + 2)
            ELSE (IF isOverlapping(shapes[i], shapes[j])
                  THEN <<Issue("overlap", "high", <<shapes[i].id, shapes[j].id>>)>>
                  ELSE <<>>) \o From(i, j + 1)
    IN  From(1, 2)

\* checkSpacing: distance < MIN_SPACING (30), compared on the squares
checkSpacing(els) ==
    LET shapes == SelectSeq(els, IsShape)
        RECURSIVE From(_, _)
        From(i, j) ==
            IF i > Len(shapes) THEN <<>>
            ELSE IF j > Len(shapes) THEN From(i + 1, i + 2)
            ELSE (IF /\ DistanceSquared(shapes[i], shapes[j]) < 30 * 30
                     /\ ~isOverlapping(shapes[i], shapes[j])
                  THEN <<Issue("poor-spacing", "medium", <<shapes[i].id, shapes[j].id>>)>>
                  ELSE <<>>) \o From(i, j + 1)
    IN  From(1, 2)

\* checkAlignment: greedy groups on the first member (ALIGNMENT_THRESHOLD = 10,
\* on x or on y), then the x and y variance of every group of two or more
checkAlignment(els) ==
    LET shapes == SelectSeq(els, IsShape)
        RECURSIVE Groups(_, _)
        Groups(i, groups) ==
            IF i > Len(shapes) THEN groups
            ELSE LET near == {g \in DOMAIN groups :
                                \/ Abs(shapes[i].x - groups[g][1].x) < 10
                                \/ Abs(shapes[i].y - groups[g][1].y) < 10}
                 IN  Groups(i + 1,
                        IF near = {} THEN Append(groups, <<shapes[i]>>)
                        ELSE LET g == CHOOSE k \in near : \A o \in near : k <= o
                             IN  [groups EXCEPT ![g] = Append(@, shapes[i])])
        SetMin(S) == CHOOSE m \in S : \A o \in S : m <= o
        Variance(S) == SetMax(S) - SetMin(S)
        OfGroup(group) ==
            IF Len(group) < 2 THEN <<>>
            ELSE (IF /\ Variance({group[k].x : k \in DOMAIN group}) > 0
                     /\ Variance({group[k].x : k \in DOMAIN group}) < 10
                  THEN <<Issue("misalignment", "low", [k \in DOMAIN group |-> group[k].id])>>
                  ELSE <<>>)
                 \o (IF /\ Variance({group[k].y : k \in DOMAIN group}) > 0
                        /\ Variance({group[k].y : k \in DOMAIN group}) < 10
                     THEN <<Issue("misalignment", "low", [k \in DOMAIN group |-> group[k].id])>>
                     ELSE <<>>)
        RECURSIVE From(_, _)
        From(groups, g) ==
            IF g > Len(groups) THEN <<>> ELSE OfGroup(groups[g]) \o From(groups, g + 1)
    IN  From(Groups(1, <<>>), 1)

\* checkOrphaned: a shape is connected when a connection starts or ends less
\* than 100px from its centre
checkOrphaned(els) ==
    LET shapes == SelectSeq(els, IsShape)
        connections == SelectSeq(els, IsConnection)
        hasConnection(shape) ==
            \E c \in DOMAIN connections :
                LET dxs == connections[c].x - CenterX(shape)
                    dys == connections[c].y - CenterY(shape)
                    dxe == connections[c].x + connections[c].width - CenterX(shape)
                    dye == connections[c].y + connections[c].height - CenterY(shape)
                IN  dxs * dxs + dys * dys < 100 * 100 \/ dxe * dxe + dye * dye < 100 * 100
        RECURSIVE From(_)
        From(i) ==
            IF i > Len(shapes) THEN <<>>
            ELSE (IF ~hasConnection(shapes[i]) /\ Len(shapes) > 1
                  THEN <<Issue("orphaned", "medium", <<shapes[i].id>>)>>
                  ELSE <<>>) \o From(i + 1)
    IN  From(1)

\* checkConnections: length < 20 and length > 800, compared on the squares
checkConnections(els) ==
    LET connections == SelectSeq(els, IsConnection)
        Len2(conn) == conn.width * conn.width + conn.height * conn.height
        RECURSIVE From(_)
        From(i) ==
            IF i > Len(connections) THEN <<>>
            ELSE (IF Len2(connections[i]) < 20 * 20
                  THEN <<Issue("invalid-connection", "low", <<connections[i].id>>)>> ELSE <<>>)
                 \o (IF Len2(connections[i]) > 800 * 800
                     THEN <<Issue("invalid-connection", "low", <<connections[i].id>>)>> ELSE <<>>)
                 \o From(i + 1)
    IN  From(1)

CountWhere(issues, field, value) == Cardinality({k \in DOMAIN issues : issues[k][field] = value})

OverallQuality(issues) ==
    LET high == CountWhere(issues, "severity", "high")
        medium == CountWhere(issues, "severity", "medium")
        low == CountWhere(issues, "severity", "low")
    IN  IF high = 0 /\ medium = 0 /\ low = 0 THEN "excellent"
        ELSE IF high = 0 /\ medium <= 1 THEN "good"
        ELSE IF high = 0 THEN "fair"
        ELSE "poor"

\* generateSuggestions: which sentences, and the count each one quotes
generateSuggestions(issues) ==
    LET Say(kind, count) == IF count > 0 THEN <<[about |-> kind, count |-> count]>> ELSE <<>>
        said == Say("high", CountWhere(issues, "severity", "high"))
                \o Say("medium", CountWhere(issues, "severity", "medium"))
                \o Say("orphaned", CountWhere(issues, "type", "orphaned"))
                \o Say("misalignment", CountWhere(issues, "type", "misalignment"))
    IN  IF said = <<>> THEN <<[about |-> "none", count |-> 0]>> ELSE said

AllIssues(els) ==
    checkOverlaps(els) \o checkSpacing(els) \o checkAlignment(els)
        \o checkOrphaned(els) \o checkConnections(els)

analyzeDiagram(els) ==
    [called |-> TRUE,
     issues |-> AllIssues(els),
     overallQuality |-> OverallQuality(AllIssues(els)),
     suggestions |-> generateSuggestions(AllIssues(els))]

NoAnalysis == [called |-> FALSE, issues |-> <<>>, overallQuality |-> "", suggestions |-> <<>>]

AnalyzerIdle == analysis = NoAnalysis

MaxAnalyzed == 3

\* what analyzeDiagram may be given: two equal squares 10px apart in x, a shape
\* touching the first at a corner, a shape far away, a shape close by, and an
\* arrow, a line and a text lying over the first square
AnalyzedChoices ==
    {[type |-> "rectangle", x |-> 0, y |-> 0, width |-> 100, height |-> 100],
     [type |-> "rectangle", x |-> 10, y |-> 0, width |-> 100, height |-> 100],
     [type |-> "ellipse", x |-> 100, y |-> 100, width |-> 40, height |-> 40],
     [type |-> "diamond", x |-> 300, y |-> 4, width |-> 100, height |-> 100],
     [type |-> "ellipse", x |-> 102, y |-> 50, width |-> 10, height |-> 10],
     [type |-> "arrow", x |-> 0, y |-> 0, width |-> 100, height |-> 100],
     [type |-> "line", x |-> 50, y |-> 50, width |-> 10, height |-> 10],
     [type |-> "text", x |-> 0, y |-> 0, width |-> 100, height |-> 100]}

AnalyzedCanvases ==
    {[k \in DOMAIN s |-> [id |-> k] @@ s[k]] : s \in SeqsUpTo(AnalyzedChoices, MaxAnalyzed)}

-----------------------------------------------------------------------------
(* Edge intersection: lib/connection-helpers (calculateEdgeIntersection).   *)
(* An angle is a direction with rational cosine and sine, cos = c / h and  *)
(* sin = s / h with c * c + s * s = h * h, plus a number of whole turns;   *)
(* so Math.cos, Math.sin and Math.tan are exact.                           *)

\* a / b for b # 0, used where b divides a
Quot(a, b) == IF b < 0 THEN (0 - a) \div (0 - b) ELSE a \div b

getShapeCenter(s) == [x |-> s.x + s.width \div 2, y |-> s.y + s.height \div 2]

\* Math.abs(Math.tan(angle)) <= num / den; the tangent of a vertical direction is
\* larger than every ratio
TanAtMost(a, num, den) == a.c # 0 /\ Abs(a.s) * den <= num * Abs(a.c)

\* ((angle % 2 PI) + 2 PI) % 2 PI: the whole turns are dropped
NormalizedAngle(a) == [a EXCEPT !.turns = 0]

calculateEdgeIntersection(s, angle) ==
    LET center == getShapeCenter(s)
        halfWidth == s.width \div 2
        halfHeight == s.height \div 2
        a == NormalizedAngle(angle)
    IN  IF s.type = "ellipse"
        THEN [x |-> center.x + Quot(halfWidth * a.c, a.h),
              y |-> center.y + Quot(halfHeight * a.s, a.h)]
        ELSE IF s.type = "diamond"
        THEN IF TanAtMost(a, halfHeight, halfWidth)
             THEN IF a.c > 0
                  THEN [x |-> center.x + halfWidth,
                        y |-> center.y + Quot(halfHeight * (halfWidth - halfWidth), halfWidth)]
                  ELSE [x |-> center.x - halfWidth,
                        y |-> center.y + Quot(halfHeight * (halfWidth - halfWidth), halfWidth)]
             ELSE IF a.s < 0
                  THEN [x |-> center.x + Quot(halfWidth * (halfHeight - halfHeight), halfHeight),
                        y |-> center.y - halfHeight]
                  ELSE [x |-> center.x + Quot(halfWidth * (halfHeight - halfHeight), halfHeight),
                        y |-> center.y + halfHeight]
        ELSE IF TanAtMost(a, halfHeight, halfWidth)
             THEN IF a.c > 0
                  THEN [x |-> center.x + halfWidth, y |-> center.y + Quot(halfWidth * a.s, a.c)]
                  ELSE [x |-> center.x - halfWidth, y |-> center.y - Quot(halfWidth * a.s, a.c)]
             ELSE IF a.s < 0
                  THEN [x |-> center.x - Quot(halfHeight * a.c, a.s), y |-> center.y - halfHeight]
                  ELSE [x |-> center.x + Quot(halfHeight * a.c, a.s), y |-> center.y + halfHeight]

MaxTurns == 1

\* the four axis directions and the eight 3-4-5 directions, each with whole turns
AngleChoices ==
    {[c |-> d[1], s |-> d[2], h |-> d[3], turns |-> t] :
        d \in {<<1, 0, 1>>, <<0, 1, 1>>, <<-1, 0, 1>>, <<0, -1, 1>>,
               <<3, 4, 5>>, <<4, 3, 5>>, <<-3, 4, 5>>, <<-4, 3, 5>>,
               <<3, -4, 5>>, <<4, -3, 5>>, <<-3, -4, 5>>, <<-4, -3, 5>>},
        t \in (0 - MaxTurns)..MaxTurns}

\* shapes whose half sizes are multiples of 60, so that every coordinate is a
\* whole number, and the 200x100 rectangle centred at (100, 50); "" is a
\* ShapeBounds without a type
ShapeChoices ==
    {[type |-> t, x |-> p, y |-> 2 * p, width |-> d[1], height |-> d[2]] :
        t \in {"rectangle", "ellipse", "diamond", ""},
        p \in {0, 30},
        d \in {<<120, 120>>, <<240, 120>>, <<120, 240>>}}
    \cup {[type |-> "rectangle", x |-> 0, y |-> 0, width |-> 200, height |-> 100]}

\* the quotients of calculateEdgeIntersection are whole numbers
WholeIntersection(s, a) == a.h = 1 \/ (s.width % 120 = 0 /\ s.height % 120 = 0)

NoShape == [type |-> "", x |-> 0, y |-> 0, width |-> 0, height |-> 0]

NoAngle == [c |-> 1, s |-> 0, h |-> 1, turns |-> 0]

NoPoint == [called |-> FALSE, x |-> 0, y |-> 0]

EdgeIdle == edgeShape = NoShape /\ edgeAngle = NoAngle /\ hit = NoPoint

-----------------------------------------------------------------------------
(* Curved paths: lib/connection-helpers (calculateCurvedPath).  A number   *)
(* is a fraction n / d with d >= 0: d = 0 is what IEEE arithmetic gives    *)
(* for a division by zero, NaN when n = 0 and Infinity otherwise, and the  *)
(* operations below carry both through as IEEE does.                       *)

Frac(n, d) == [n |-> n, d |-> d]

FDiv(a, b) == IF b.n < 0 THEN Frac((0 - a.n) * b.d, a.d * (0 - b.n)) ELSE Frac(a.n * b.d, a.d * b.n)

FMul(a, b) == Frac(a.n * b.n, a.d * b.d)

FAdd(a, b) == Frac(a.n * b.d + b.n * a.d, a.d * b.d)

IsFinite(a) == a.d # 0

calculateCurvedPath(start, end, curveAmount) ==
    LET dx == end.x - start.x
        dy == end.y - start.y
        distance == Frac(Sqrt(dx * dx + dy * dy), 1)
        offsetDistance == FMul(distance, curveAmount)
        perpX == FDiv(Frac(0 - dy, 1), distance)
        perpY == FDiv(Frac(dx, 1), distance)
        midX == FDiv(Frac(start.x + end.x, 1), Frac(2, 1))
        midY == FDiv(Frac(start.y + end.y, 1), Frac(2, 1))
    IN  [controlPoint1 |-> [x |-> FAdd(midX, FMul(perpX, offsetDistance)),
                            y |-> FAdd(midY, FMul(perpY, offsetDistance))],
         controlPoint2 |-> [x |-> FAdd(midX, FMul(perpX, offsetDistance)),
                            y |-> FAdd(midY, FMul(perpY, offsetDistance))]]

MaxCurve == 5

\* end points on a 30 x 40 grid, so that the distance of two of them that are
\* not 30 x 80 or 60 x 40 apart is a whole number; curveAmount in tenths
CurveCalls ==
    {c \in [start : [x : {0, 30, 60}, y : {0, 40, 80}],
            end : [x : {0, 30, 60}, y : {0, 40, 80}],
            curveAmount : {Frac(k, 10) : k \in {1, 3, MaxCurve}}] :
        WholeLength(c.start, c.end)}

NoCurveCall == [start |-> [x |-> 0, y |-> 0], end |-> [x |-> 0, y |-> 0], curveAmount |-> Frac(0, 1)]

NoCurve == [called |-> FALSE]

CurveIdle == curveArgs = NoCurveCall /\ curve = NoCurve

-----------------------------------------------------------------------------
(* orgChartLayout: lib/org-chart-layouts.ts.  An OrgNode is a record with  *)
(* its id, its optional level (hasLevel, level) and the sequence of its    *)
(* children (<<>> when it has none, or no children field).                 *)

OrgNode(id, children) == [id |-> id, hasLevel |-> FALSE, level |-> 0, children |-> children]

\* the options after the || defaults
OrgChartOptions(o) ==
    [orientation |-> IF o.orientation = "" THEN "vertical" ELSE o.orientation,
     nodeWidth |-> Or(o.nodeWidth, 180),
     nodeHeight |-> Or(o.nodeHeight, 100),
     levelSpacing |-> Or(o.levelSpacing, 150),
     siblingSpacing |-> Or(o.siblingSpacing, 40),
     startX |-> Or(o.startX, 400),
     startY |-> Or(o.startY, 100)]

\* assignLevels writes node.level on the record it is given: the value is the
\* record as the caller sees it afterwards
RECURSIVE assignLevels(_, _)
assignLevels(node, level) ==
    [node EXCEPT !.hasLevel = TRUE,
                 !.level = level,
                 !.children = [k \in DOMAIN node.children |-> assignLevels(node.children[k], level + 1)]]

\* the subtree width without the gaps between the children
RECURSIVE calculateSubtreeWidthNoSpacing(_, _)
calculateSubtreeWidthNoSpacing(node, opts) ==
    IF Len(node.children) = 0 THEN opts.nodeWidth
    ELSE LET RECURSIVE Sum(_)
             Sum(k) == IF k = 0 THEN 0
                       ELSE Sum(k - 1) + calculateSubtreeWidthNoSpacing(node.children[k], opts)
         IN  Max(opts.nodeWidth, Sum(Len(node.children)))

RECURSIVE calculateSubtreeWidth(_, _)
calculateSubtreeWidth(node, opts) ==
    IF Len(node.children) = 0 THEN opts.nodeWidth
    ELSE LET RECURSIVE Sum(_)
             Sum(k) == IF k = 0 THEN 0 ELSE Sum(k - 1) + calculateSubtreeWidth(node.children[k], opts)
         IN  Max(opts.nodeWidth,
                 Sum(Len(node.children)) + (Len(node.children) - 1) * opts.siblingSpacing)

\* positionNode: acc holds the nodes map and the connections made so far
RECURSIVE positionNode(_, _, _, _, _)
RECURSIVE PositionChildren(_, _, _, _, _, _)
positionNode(node, x, y, opts, acc) ==
    LET box == IF opts.orientation = "vertical"
               THEN [x |-> x - opts.nodeWidth \div 2, y |-> y,
                     width |-> opts.nodeWidth, height |-> opts.nodeHeight, level |-> node.level]
               ELSE [x |-> y, y |-> x - opts.nodeHeight \div 2,
                     width |-> opts.nodeWidth, height |-> opts.nodeHeight, level |-> node.level]
    IN  IF Len(node.children) > 0
        THEN PositionChildren(node, 1, x - calculateSubtreeWidth(node, opts) \div 2, y, opts,
                              [acc EXCEPT !.nodes = MapSet(@, node.id, box)])
        ELSE [acc EXCEPT !.nodes = MapSet(@, node.id, box)]

\* the loop `for (const child of node.children)` from the child i on
PositionChildren(node, i, currentX, y, opts, acc) ==
    IF i > Len(node.children) THEN acc
    ELSE LET child == node.children[i]
             placed == positionNode(child, currentX + calculateSubtreeWidth(child, opts) \div 2,
                                    y + opts.levelSpacing, opts, acc)
         IN  PositionChildren(node, i + 1,
                 currentX + calculateSubtreeWidth(child, opts) + opts.siblingSpacing, y, opts,
                 [placed EXCEPT !.connections =
                     Append(@, [from |-> node.id, to |-> child.id, points |-> <<>>])])

\* the orthogonal path of one connection
OrgConnectionPoints(fromNode, toNode, opts) ==
    IF opts.orientation = "vertical"
    THEN LET fromX == fromNode.x + fromNode.width \div 2
             fromY == fromNode.y + fromNode.height
             toX == toNode.x + toNode.width \div 2
             midY == (fromY + toNode.y) \div 2
         IN  <<[x |-> fromX, y |-> fromY], [x |-> fromX, y |-> midY],
               [x |-> toX, y |-> midY], [x |-> toX, y |-> toNode.y]>>
    ELSE LET fromX == fromNode.x + fromNode.width
             fromY == fromNode.y + fromNode.height \div 2
             toY == toNode.y + toNode.height \div 2
             midX == (fromX + toNode.x) \div 2
         IN  <<[x |-> fromX, y |-> fromY], [x |-> midX, y |-> fromY],
               [x |-> midX, y |-> toY], [x |-> toNode.x, y |-> toY]>>

\* the caller's hierarchy after the call: assignLevels has run on every root
OrgHierarchyAfter(hier) == [k \in DOMAIN hier |-> assignLevels(hier[k], 0)]

orgChartLayout(hier, o) ==
    LET opts == OrgChartOptions(o)
        RECURSIVE Roots(_, _, _)
        Roots(i, currentX, acc) ==
            IF i > Len(hier) THEN acc
            ELSE Roots(i + 1,
                       currentX + calculateSubtreeWidth(hier[i], opts) + opts.siblingSpacing * 2,
                       positionNode(assignLevels(hier[i], 0), currentX, opts.startY, opts, acc))
        positioned == Roots(1, opts.startX, [nodes |-> EmptyMap, connections |-> <<>>])
    IN  [nodes |-> positioned.nodes,
         connections |->
            [k \in DOMAIN positioned.connections |->
                [positioned.connections[k] EXCEPT !.points =
                    OrgConnectionPoints(positioned.nodes[positioned.connections[k].from],
                                        positioned.nodes[positioned.connections[k].to], opts)]]]

MaxPresetLevel == 7

\* forests over the ids a..e: empty, single nodes, chains, fans, two roots, a
\* repeated id, and nodes that arrive with a level already set
HierarchyChoices ==
    LET a(ch) == OrgNode("a", ch)
        b(ch) == OrgNode("b", ch)
        c(ch) == OrgNode("c", ch)
        d(ch) == OrgNode("d", ch)
        e(ch) == OrgNode("e", ch)
        Preset(n, l) == [n EXCEPT !.hasLevel = TRUE, !.level = l]
    IN  {<<>>,
         <<a(<<>>)>>,
         <<a(<<b(<<>>)>>)>>,
         <<a(<<b(<<>>), c(<<>>)>>)>>,
         <<a(<<b(<<c(<<>>)>>)>>)>>,
         <<a(<<b(<<d(<<>>)>>), c(<<>>)>>)>>,
         <<a(<<b(<<>>), c(<<>>), d(<<>>)>>)>>,
         <<a(<<>>), b(<<>>)>>,
         <<a(<<c(<<>>)>>), b(<<d(<<>>)>>)>>,
         <<a(<<c(<<>>)>>), b(<<d(<<>>), e(<<>>)>>)>>,
         <<a(<<c(<<>>), d(<<>>)>>), b(<<e(<<>>)>>)>>,
         <<a(<<a(<<>>)>>)>>,
         <<Preset(a(<<Preset(b(<<>>), 1)>>), 0)>>,
         <<Preset(a(<<Preset(b(<<>>), 0)>>), MaxPresetLevel)>>}

OrgOptionChoices ==
    [orientation : {"", "vertical", "horizontal"},
     nodeWidth : {0, 100}, nodeHeight : {0}, levelSpacing : {0, 120},
     siblingSpacing : {0, 20}, startX : {0}, startY : {0, 40}]

NoOrgOptions ==
    [orientation |-> "", nodeWidth |-> 0, nodeHeight |-> 0, levelSpacing |-> 0,
     siblingSpacing |-> 0, startX |-> 0, startY |-> 0]

NoOrgLayout == [called |-> FALSE, nodes |-> EmptyMap, connections |-> <<>>]

OrgIdle == hierarchy = <<>> /\ orgOptions = NoOrgOptions /\ orgLayout = NoOrgLayout

-----------------------------------------------------------------------------
(* calculateFlowchartLayout: lib/flowchart-layouts.ts.  A step carries the *)
(* length of its label instead of the text; "" is a step without swimlane. *)

NODE_DIMENSIONS(type) ==
    CASE type \in {"start", "end"} -> [width |-> 140, height |-> 50]
      [] type = "decision" -> [width |-> 160, height |-> 80]
      [] type = "document" -> [width |-> 180, height |-> 70]
      [] OTHER -> [width |-> 180, height |-> 60]

calculateNodeWidth(labelLength, baseWidth) == Max(baseWidth, Min(labelLength * 8 + 40, 280))

\* the BFS that assigns layers: a visited id only has its own layer raised
RECURSIVE FlowBFS(_, _, _, _)
FlowBFS(conns, queue, visited, layers) ==
    IF queue = <<>> THEN layers
    ELSE LET id == Head(queue).id
             layer == Head(queue).layer
             next == SelectSeq(conns, LAMBDA c : c.from = id)
         IN  IF id \in visited
             THEN FlowBFS(conns, Tail(queue), visited, MapSet(layers, id, Max(layers[id], layer)))
             ELSE FlowBFS(conns,
                          Tail(queue) \o [k \in DOMAIN next |-> [id |-> next[k].to, layer |-> layer + 1]],
                          visited \cup {id}, MapSet(layers, id, layer))

\* the layers map: start nodes (or steps[0]), the BFS, then 0 for unvisited steps
FlowLayers(steps, conns) ==
    LET hasIncoming == {conns[k].to : k \in DOMAIN conns}
        found == SelectSeq(steps, LAMBDA s : s.id \notin hasIncoming)
        startNodes == IF Len(found) = 0 /\ Len(steps) > 0 THEN <<steps[1]>> ELSE found
        reached == FlowBFS(conns, [k \in DOMAIN startNodes |-> [id |-> startNodes[k].id, layer |-> 0]],
                           {}, EmptyMap)
    IN  [id \in DOMAIN reached \cup {steps[k].id : k \in DOMAIN steps} |->
            IF id \in DOMAIN reached THEN reached[id] ELSE 0]

\* the swimlanes array of the result; <<>> stands for undefined
FlowSwimlanes(direction, swimlanes) ==
    [index \in DOMAIN swimlanes |->
        IF direction = "vertical"
        THEN [name |-> swimlanes[index], x |-> (index - 1) * (400 + 50), y |-> 0,
              width |-> 400, height |-> 800]
        ELSE [name |-> swimlanes[index], x |-> 0, y |-> (index - 1) * (400 + 50),
              width |-> 1200, height |-> 400]]

\* "Position nodes by layer" for the given layers map
FlowNodes(steps, direction, spacing, swimlanes, layers) ==
    LET InLayer(l) == SelectSeq(steps, LAMBDA s : layers[s.id] = l)
        maxLayer == SetMax({layers[steps[k].id] : k \in DOMAIN steps} \cup {0})
        maxNodesInLayer == SetMax({Len(InLayer(l)) : l \in 0..maxLayer} \cup {1})
        totalWidth == IF direction = "vertical" THEN maxNodesInLayer * (180 + 80)
                      ELSE (maxLayer + 1) * (180 + spacing)
        totalHeight == IF direction = "vertical" THEN (maxLayer + 1) * (60 + spacing)
                       ELSE maxNodesInLayer * (60 + 80)
        startX == 600 - totalWidth \div 2
        startY == 400 - totalHeight \div 2
        WidthOf(s) == calculateNodeWidth(s.labelLength, NODE_DIMENSIONS(s.type).width)
        RECURSIVE LayerWidth(_, _)
        LayerWidth(layerNodes, k) ==
            IF k = 0 THEN 0 - 80 ELSE LayerWidth(layerNodes, k - 1) + WidthOf(layerNodes[k]) + 80
        \* swimlaneIndexMap.get(step.swimlane), 0 when the step has no known swimlane
        SwimlaneIndex(s) ==
            IF s.swimlane # "" /\ \E k \in DOMAIN swimlanes : swimlanes[k] = s.swimlane
            THEN SetMax({k \in DOMAIN swimlanes : swimlanes[k] = s.swimlane}) - 1
            ELSE 0
        RECURSIVE Row(_, _, _, _)
        Row(layerNodes, k, currentX, currentY) ==
            IF k > Len(layerNodes) THEN <<>>
            ELSE LET s == layerNodes[k]
                     height == NODE_DIMENSIONS(s.type).height
                 IN  <<[id |-> s.id,
                        x |-> IF direction = "vertical" THEN SwimlaneIndex(s) * 450 + currentX
                              ELSE currentX,
                        y |-> IF direction = "vertical" THEN currentY
                              ELSE SwimlaneIndex(s) * 450 + currentY + (k - 1) * (height + 80),
                        width |-> WidthOf(s), height |-> height,
                        type |-> s.type, swimlane |-> s.swimlane]>>
                     \o Row(layerNodes, k + 1,
                            IF direction = "vertical" THEN currentX + WidthOf(s) + 80 ELSE currentX,
                            currentY)
        RECURSIVE Rows(_)
        Rows(l) ==
            IF l > maxLayer THEN <<>>
            ELSE Row(InLayer(l), 1,
                     IF direction = "vertical"
                     THEN startX + (totalWidth - LayerWidth(InLayer(l), Len(InLayer(l)))) \div 2
                     ELSE startX + l * (180 + spacing),
                     IF direction = "vertical" THEN startY + l * (60 + spacing) ELSE startY)
                 \o Rows(l + 1)
    IN  Rows(0)

\* the edges: one for every connection both of whose ends nodes.find finds
FlowEdges(conns, direction, placed) ==
    LET Found(id) == \E k \in DOMAIN placed : placed[k].id = id
        Find(id) == placed[CHOOSE k \in DOMAIN placed :
                             placed[k].id = id /\ \A j \in DOMAIN placed : placed[j].id = id => k <= j]
        RECURSIVE From(_)
        From(i) ==
            IF i > Len(conns) THEN <<>>
            ELSE (IF Found(conns[i].from) /\ Found(conns[i].to)
                  THEN LET f == Find(conns[i].from)
                           t == Find(conns[i].to)
                       IN  <<[from |-> conns[i].from, to |-> conns[i].to,
                              points |->
                                 IF direction = "vertical"
                                 THEN <<[x |-> f.x + f.width \div 2, y |-> f.y + f.height],
                                        [x |-> t.x + t.width \div 2, y |-> t.y]>>
                                 ELSE <<[x |-> f.x + f.width, y |-> f.y + f.height \div 2],
                                        [x |-> t.x, y |-> t.y + t.height \div 2]>>]>>
                  ELSE <<>>) \o From(i + 1)
    IN  From(1)

FlowResult(conns, direction, swimlanes, placed, layers) ==
    [nodes |-> placed,
     edges |-> FlowEdges(conns, direction, placed),
     swimlanes |-> FlowSwimlanes(direction, swimlanes),
     layers |-> layers]

\* the result also keeps the layers map, which the code holds in a local
calculateFlowchartLayout(steps, conns, direction, spacing, swimlanes) ==
    FlowResult(conns, direction, swimlanes,
               FlowNodes(steps, direction, spacing, swimlanes, FlowLayers(steps, conns)),
               FlowLayers(steps, conns))

-----------------------------------------------------------------------------
(* handleCreateFlowchart: lib/ai-chat/tool-handlers/flowchart-handler.ts *)

\* "Draw swimlanes first if present": a rectangle and a text for each
RECURSIVE FlowDrawSwimlanes(_, _, _)
FlowDrawSwimlanes(lanes, i, c) ==
    IF i > Len(lanes) THEN c
    ELSE FlowDrawSwimlanes(lanes, i + 1,
            addElementMutation(
                addElementMutation(c, createShapeElement("rectangle", lanes[i].x, lanes[i].y,
                                                         lanes[i].width, lanes[i].height)),
                createTextElement(lanes[i].x + 10, lanes[i].y + 10, lanes[i].width - 20, 30)))

FlowShapeType(type) ==
    CASE type \in {"start", "end"} -> "ellipse"
      [] type = "decision" -> "diamond"
      [] OTHER -> "rectangle"

\* "Create nodes with appropriate shapes": acc.ctx is the canvas, acc.ids is nodeElementIds
RECURSIVE FlowCreateNodes(_, _, _)
FlowCreateNodes(placed, i, acc) ==
    IF i > Len(placed) THEN acc
    ELSE LET node == placed[i]
             elementId == acc.ctx.idCount + 1
             c1 == addElementMutation([acc.ctx EXCEPT !.idCount = elementId],
                       [id |-> elementId]
                       @@ createShapeElement(FlowShapeType(node.type), node.x, node.y,
                                             node.width, node.height))
         IN  FlowCreateNodes(placed, i + 1,
                [ctx |-> Register(c1, node.id, elementId, node, FlowShapeType(node.type)),
                 ids |-> MapSet(acc.ids, node.id, elementId)])

FlowEdgeHandles(points) ==
    LET dx == points[Len(points)].x - points[1].x
        dy == points[Len(points)].y - points[1].y
    IN  IF Len(points) < 2
        THEN [sourceHandle |-> "bottom", targetHandle |-> "top"]
        ELSE IF Abs(dx) > Abs(dy)
        THEN [sourceHandle |-> IF dx > 0 THEN "right" ELSE "left",
              targetHandle |-> IF dx > 0 THEN "left" ELSE "right"]
        ELSE [sourceHandle |-> IF dy > 0 THEN "bottom" ELSE "top",
              targetHandle |-> IF dy > 0 THEN "top" ELSE "bottom"]

\* the loop over layout.edges: acc.ctx is the canvas, acc.skipped counts skippedConnections
RECURSIVE FlowCreateEdges(_, _, _, _)
FlowCreateEdges(es, i, ids, acc) ==
    IF i > Len(es) THEN acc
    ELSE IF es[i].from \notin DOMAIN ids \/ es[i].to \notin DOMAIN ids
    THEN FlowCreateEdges(es, i + 1, ids, [acc EXCEPT !.skipped = @ + 1])
    ELSE FlowCreateEdges(es, i + 1, ids,
            [acc EXCEPT !.ctx = addConnectionMutation(@,
                [sourceId |-> ids[es[i].from], targetId |-> ids[es[i].to],
                 pathType |-> "smoothstep"] @@ FlowEdgeHandles(es[i].points))])

\* the return value, from the layout and the outcome of the edge loop
FlowReturn(chart, made, linked) ==
    [ctx |-> linked.ctx,
     result |-> [status |-> "returned", success |-> TRUE,
                 nodeCount |-> Len(chart.nodes),
                 connectionCount |-> Len(chart.edges) - linked.skipped,
                 skippedCount |-> linked.skipped,
                 warned |-> linked.skipped > 0,
                 nodeIds |-> made.ids]]

FlowConnect(chart, made) ==
    FlowReturn(chart, made, FlowCreateEdges(chart.edges, 1, made.ids, [ctx |-> made.ctx, skipped |-> 0]))

FlowDraw(chart, c) ==
    FlowConnect(chart,
        FlowCreateNodes(chart.nodes, 1,
            [ctx |-> FlowDrawSwimlanes(chart.swimlanes, 1, c), ids |-> EmptyMap]))

handleCreateFlowchart(a, c) ==
    IF ~a.hasSteps
    THEN [ctx |-> c,
          result |-> [status |-> "returned", success |-> FALSE, nodeCount |-> 0,
                      connectionCount |-> 0, skippedCount |-> 0, warned |-> FALSE,
                      nodeIds |-> EmptyMap]]
    ELSE FlowDraw(calculateFlowchartLayout(a.steps,
                                           IF a.hasConnections THEN a.connections ELSE <<>>,
                                           IF a.direction = "" THEN "vertical" ELSE a.direction,
                                           Or(a.spacing, 100), a.swimlanes), c)

MaxConnections == 3

FlowStep(id, type, labelLength, swimlane) ==
    [id |-> id, type |-> type, labelLength |-> labelLength, swimlane |-> swimlane]

\* the steps a (start), b (process), c (decision, long label), d (end); a call has
\* the first n of them
FlowStepLists ==
    LET all == <<FlowStep("a", "start", 5, ""), FlowStep("b", "process", 12, "dev"),
                 FlowStep("c", "decision", 30, "ops"), FlowStep("d", "end", 3, "")>>
    IN  {SubSeq(all, 1, n) : n \in {0, 1, 3, 4}}

\* connections between the steps, one that closes a cycle, and two with an end
\* ("x") that is not the id of any step
FlowConnectionChoices ==
    {[from |-> p[1], to |-> p[2]] :
        p \in {<<"a", "b">>, <<"a", "c">>, <<"c", "b">>, <<"b", "d">>, <<"b", "a">>,
               <<"a", "x">>, <<"x", "b">>}}

\* connection lists without repetition, and the diamond a -> b, a -> c, c -> b
\* followed by b -> d
FlowConnectionLists ==
    {s \in SeqsUpTo(FlowConnectionChoices, MaxConnections) :
        \A i, j \in DOMAIN s : i # j => s[i] # s[j]}
    \cup {<<[from |-> "a", to |-> "b"], [from |-> "a", to |-> "c"],
            [from |-> "c", to |-> "b"], [from |-> "b", to |-> "d"]>>}

FlowStyleChoices ==
    {[direction |-> "", spacing |-> 0, swimlanes |-> <<>>],
     [direction |-> "horizontal", spacing |-> 0, swimlanes |-> <<>>],
     [direction |-> "vertical", spacing |-> 60, swimlanes |-> <<"ops", "dev">>],
     [direction |-> "horizontal", spacing |-> 60, swimlanes |-> <<"ops", "dev">>]}

\* a call without steps and without connections
NoFlowCall ==
    [hasSteps |-> FALSE, steps |-> <<>>, hasConnections |-> FALSE, connections |-> <<>>,
     direction |-> "", spacing |-> 0, swimlanes |-> <<>>]

FlowCalls ==
    {[hasSteps |-> TRUE, steps |-> s, hasConnections |-> TRUE, connections |-> cs] @@ st :
        s \in FlowStepLists, cs \in FlowConnectionLists, st \in FlowStyleChoices}
    \cup {NoFlowCall}
    \cup {[NoFlowCall EXCEPT !.hasSteps = TRUE, !.steps = s] : s \in FlowStepLists}

NoFlowLayout == [called |-> FALSE]

NoFlowResult == [status |-> "none"]

FlowIdle == flowArgs = NoFlowCall /\ flowLayout = NoFlowLayout /\ flowResult = NoFlowResult

NewIdle == AnalyzerIdle /\ EdgeIdle /\ CurveIdle /\ OrgIdle /\ FlowIdle

-----------------------------------------------------------------------------
(* useAIDiagram: trigger, pollForResult, cancel *)

MaxRuns == 2

MaxPollAttempts == 2   \* MAX_POLL_ATTEMPTS, 300 in the hook

Runs == 1..MaxRuns

\* trigger() number r creates AbortController number r; 0 is null / undefined
NoHook == [status |-> "idle", result |-> 0, error |-> 0, current |-> 0, pollCount |-> 0]

NoRun == [pc |-> "new", signal |-> 0, polls |-> 0, wrote |-> "none"]

PollIdle == hook = NoHook /\ aborted = {} /\ runs = [r \in Runs |-> NoRun]

\* cancel(): [hook, aborted] after it
cancel(h, ab) ==
    [hook |-> [h EXCEPT !.current = 0, !.status = "idle"],
     aborted |-> IF h.current # 0 THEN ab \cup {h.current} ELSE ab]

\* a fetch given `signal` rejects with an AbortError once that signal is aborted
Rejected(run) == run.signal # 0 /\ run.signal \in aborted

\* the head of the while loop of pollForResult, entered by run r: [hook, run] after it
PollLoop(h, run) ==
    IF h.pollCount >= MaxPollAttempts
    THEN \* throw new Error("Timeout ..."), caught by trigger
         [hook |-> [h EXCEPT !.error = 1, !.status = "failed"],
          run |-> [run EXCEPT !.pc = "done", !.wrote = "failed"]]
    ELSE IF h.current # 0 /\ h.current \in aborted
    THEN [hook |-> h, run |-> [run EXCEPT !.pc = "done"]]
    ELSE \* fetch(`/api/ai-diagram/${runId}`, { signal: abortControllerRef.current?.signal })
         [hook |-> h,
          run |-> [run EXCEPT !.pc = "fetching", !.signal = h.current, !.polls = @ + 1]]

\* the catch block of trigger for an error that is no AbortError
Failed(h, run) ==
    [hook |-> [h EXCEPT !.error = 1, !.status = "failed"],
     run |-> [run EXCEPT !.pc = "done", !.wrote = "failed"]]

-----------------------------------------------------------------------------
(* The canvas store and its debounced auto-save *)

MaxChanges == 3

MaxInFlight == 2

MaxSaves == 3   \* saveDiagram() calls tried

\* elements and connections stand for the arrays: each change gives a new value
NoStore == [elements |-> 0, connections |-> 0, currentDiagramId |-> 0, isSaving |-> FALSE]

\* timeoutId !== null, lastArgs !== null
NoDebouncer == [timeoutId |-> FALSE, lastArgs |-> FALSE]

NoSaveCall == [count |-> 0, id |-> 0, elements |-> 0, connections |-> 0]

StoreIdle == store = NoStore /\ debouncer = NoDebouncer /\ inflight = 0 /\ lastCall = NoSaveCall

\* diagramService.autoSave(id, elements, connections) is called
AutoSaveCalled(s, call) ==
    [count |-> call.count + 1, id |-> s.currentDiagramId,
     elements |-> s.elements, connections |-> s.connections]

\* triggerAutoSave(): [store, inflight, lastCall] after it
triggerAutoSave(s, n, call) ==
    IF s.currentDiagramId # 0 /\ ~s.isSaving
    THEN [store |-> [s EXCEPT !.isSaving = TRUE], inflight |-> n + 1,
          lastCall |-> AutoSaveCalled(s, call)]
    ELSE [store |-> s, inflight |-> n, lastCall |-> call]

\* debouncedAutoSave(): lastArgs = args (an empty array, truthy), the timer restarted
debounced(d) == [timeoutId |-> TRUE, lastArgs |-> TRUE]

\* the set(...) of each store action
StoreOps ==
    {"addElement", "updateElements", "clearElements",
     "addConnection", "updateConnections", "clearConnections", "clearAll"}

StoreSet(s, op) ==
    [s EXCEPT !.elements = IF op \in {"addElement", "updateElements", "clearElements", "clearAll"}
                           THEN @ + 1 ELSE @,
              !.connections = IF op \in {"addConnection", "updateConnections",
                                         "clearConnections", "clearAll"}
                              THEN @ + 1 ELSE @]

-----------------------------------------------------------------------------
(* handleCreateMindMap: lib/ai-chat/tool-handlers/mindmap-handler.ts *)

MaxStack == 6   \* the frames of positionBranch the call stack holds

\* branchMap.get(id): the last branch with that id, or none
MindBranch(branches, id) ==
    LET at == {i \in DOMAIN branches : branches[i].id = id}
    IN IF at = {} THEN <<>> ELSE <<branches[CHOOSE i \in at : \A j \in at : j <= i]>>

\* rootBranches = args.branches.filter(b => !childIds.has(b.id))
MindRoots(branches) ==
    LET childIds == UNION {Range(branches[i].children) : i \in DOMAIN branches}
    IN SelectSeq(branches, LAMBDA b : b.id \notin childIds)

\* positionBranch: acc is [positioned, connections, thrown]; the coordinates of
\* a node (cos and sin of its angle) are left out, its id, level and parent kept.
\* A call deeper than the stack holds throws a RangeError.
RECURSIVE positionBranch(_, _, _, _, _, _)
positionBranch(branches, branch, level, parentId, depth, acc) ==
    IF acc.thrown THEN acc
    ELSE IF depth > MaxStack THEN [acc EXCEPT !.thrown = TRUE]
    ELSE LET here == [positioned |-> Append(acc.positioned,
                                        [id |-> branch.id, level |-> level, parentId |-> parentId]),
                      connections |-> Append(acc.connections,
                                        [fromId |-> parentId, toId |-> branch.id]),
                      thrown |-> FALSE]
             RECURSIVE Children(_, _)
             Children(i, a) ==
                 IF i > Len(branch.children) THEN a
                 ELSE LET childBranch == MindBranch(branches, branch.children[i])
                      IN Children(i + 1,
                            IF childBranch = <<>> THEN a
                            ELSE positionBranch(branches, childBranch[1], level + 1,
                                                branch.id, depth + 1, a))
         IN Children(1, here)

handleCreateMindMap(a) ==
    IF ~a.hasTopic
    THEN [status |-> "returned", success |-> FALSE, positioned |-> <<>>,
          nodeCount |-> 0, connectionCount |-> 0]
    ELSE LET roots == MindRoots(a.branches)
             RECURSIVE Roots(_, _)
             Roots(i, acc) ==
                 IF i > Len(roots) THEN acc
                 ELSE Roots(i + 1, positionBranch(a.branches, roots[i], 1, "central", 1, acc))
             laid == Roots(1, [positioned |-> <<[id |-> "central", level |-> 0, parentId |-> ""]>>,
                               connections |-> <<>>, thrown |-> FALSE])
         IN IF laid.thrown
            THEN [status |-> "thrown", success |-> FALSE, positioned |-> laid.positioned,
                  nodeCount |-> 0, connectionCount |-> 0]
            ELSE [status |-> "returned", success |-> TRUE, positioned |-> laid.positioned,
                  nodeCount |-> Len(laid.positioned), connectionCount |-> Len(laid.connections)]

MindIds == <<"a", "b", "c">>

MindChildLists == {<<>>, <<"a">>, <<"b">>, <<"c">>, <<"b", "c">>, <<"x">>}

\* the branch lists tried: a prefix of MindIds, each branch with one of the child lists
MindBranchLists ==
    UNION {{[i \in 1..n |-> [id |-> MindIds[i], children |-> ch[i]]] :
                ch \in [1..n -> MindChildLists]} : n \in 0..Len(MindIds)}

NoMindCall == [hasTopic |-> FALSE, branches |-> <<>>]

NoMindResult == [status |-> "none", success |-> FALSE, positioned |-> <<>>,
                 nodeCount |-> 0, connectionCount |-> 0]

MindIdle == mindArgs = NoMindCall /\ mindResult = NoMindResult

-----------------------------------------------------------------------------
(* getSmoothStepPath called on its own *)

HandlePositions == {"top", "right", "bottom", "left"}

StepGrid == {0, 100, 200}

StepCalls ==
    [s : [x : StepGrid, y : StepGrid], t : [x : StepGrid, y : StepGrid],
     sourceHandle : HandlePositions, targetHandle : HandlePositions]

NoStepCall == [s |-> [x |-> 0, y |-> 0], t |-> [x |-> 0, y |-> 0],
               sourceHandle |-> "", targetHandle |-> ""]

NoStepPath == [called |-> FALSE, points |-> <<>>, path |-> <<>>, labelX |-> 0, labelY |-> 0]

StepIdle == stepArgs = NoStepCall /\ stepPath = NoStepPath

-----------------------------------------------------------------------------
(* checkRateLimit: middleware.ts.  Time is counted in units of one window  *)
(* fraction; the limits are scaled down, aiApi staying the stricter one.  *)

MaxNow == 5

MaxRequests == 6

ApiLimit == 3

AiApiLimit == 2

WindowMs == 2

RATE_LIMIT_CONFIG ==
    [api   |-> [limit |-> ApiLimit,   windowMs |-> WindowMs],
     aiApi |-> [limit |-> AiApiLimit, windowMs |-> WindowMs]]

\* `${ip}:${pathname}` for one client on an AI endpoint and on another API route
Identifiers == {"ip:/api/ai-chat", "ip:/api/diagrams"}

\* the config middleware() picks for the identifier's pathname
ConfigOf(identifier) ==
    IF identifier = "ip:/api/ai-chat" THEN RATE_LIMIT_CONFIG.aiApi ELSE RATE_LIMIT_CONFIG.api

EmptyRateLimitStore == [i \in {} |-> [count |-> 0, resetTime |-> 0]]

RateIdle == rateLimitStore = EmptyRateLimitStore /\ now = 0 /\ checks = <<>>

\* checkRateLimit letting a request through while count = limit
checkRateLimitOffByOne(st, identifier, config, at) ==
    IF identifier \notin DOMAIN st \/ at > st[identifier].resetTime
    THEN [st |-> (identifier :> [count |-> 1, resetTime |-> at + config.windowMs]) @@ st,
          allowed |-> TRUE, remaining |-> config.limit - 1, resetIn |-> config.windowMs]
    ELSE IF st[identifier].count > config.limit
    THEN [st |-> st, allowed |-> FALSE, remaining |-> 0,
          resetIn |-> st[identifier].resetTime - at]
    ELSE [st |-> [st EXCEPT ![identifier].count = @ + 1],
          allowed |-> TRUE, remaining |-> config.limit - (st[identifier].count + 1),
          resetIn |-> st[identifier].resetTime - at]

\* checkRateLimit(identifier, config) at Date.now() = at on the store st:
\* the store afterwards and the returned record
checkRateLimit(st, identifier, config, at) ==
    IF identifier \notin DOMAIN st \/ at > st[identifier].resetTime
    THEN [st |-> (identifier :> [count |-> 1, resetTime |-> at + config.windowMs]) @@ st,
          allowed |-> TRUE, remaining |-> config.limit - 1, resetIn |-> config.windowMs]
    ELSE IF st[identifier].count >= config.limit
    THEN [st |-> st, allowed |-> FALSE, remaining |-> 0,
          resetIn |-> st[identifier].resetTime - at]
    ELSE [st |-> [st EXCEPT ![identifier].count = @ + 1],
          allowed |-> TRUE, remaining |-> config.limit - (st[identifier].count + 1),
          resetIn |-> st[identifier].resetTime - at]

cleanupRateLimitStore(st, at) ==
    [i \in {k \in DOMAIN st : ~(at > st[k].resetTime)} |-> st[i]]

-----------------------------------------------------------------------------
(* The shape handlers: lib/ai-chat/tool-handlers/shape-handlers.ts.  An    *)
(* optional number is <<>> when absent and <<v>> when given.               *)

MaxToolCalls == 4

\* v ?? d
Nullish(opt, d) == IF opt = <<>> THEN d ELSE opt[1]

NoShapeArgs ==
    [type |-> "rectangle", shapeId |-> "", x |-> <<>>, y |-> <<>>, width |-> <<>>, height |-> <<>>,
     relativeToShapeId |-> "", angle |-> <<>>, distance |-> <<>>,
     gridPosition |-> <<>>, circularPosition |-> <<>>,
     autoConnect |-> FALSE, fromShapeId |-> "", toShapeId |-> ""]

NoUpdateArgs ==
    [id |-> "", shapeId |-> "", x |-> <<>>, y |-> <<>>, width |-> <<>>, height |-> <<>>,
     properties |-> [x |-> <<>>, y |-> <<>>, width |-> <<>>, height |-> <<>>]]

Failure(c) == [ctx |-> c, success |-> FALSE, updates |-> <<>>]

\* the connector between two registered shapes; it is added to the canvas and
\* registered under no shape id (its geometry, from calculateConnection, is
\* not recorded here)
handleAutoConnect(a, c) ==
    IF a.fromShapeId \notin DOMAIN c.shapeRegistry \/ a.toShapeId \notin DOMAIN c.shapeRegistry
    THEN Failure(c)
    ELSE IF a.fromShapeId \notin DOMAIN c.shapeData \/ a.toShapeId \notin DOMAIN c.shapeData
    THEN Failure(c)
    ELSE [ctx |-> addElementMutation(c, [type |-> a.type, from |-> c.shapeRegistry[a.fromShapeId],
                                         to |-> c.shapeRegistry[a.toShapeId]]),
          success |-> TRUE, updates |-> <<>>]

\* "Apply defaults" to the end of handleCreateShape
CreateShapeAt(a, c, finalX, finalY) ==
    LET x == Nullish(finalX, 100)
        y == Nullish(finalY, 100)
        width == Nullish(a.width, IF a.type = "text" THEN 200 ELSE 150)
        height == Nullish(a.height, IF a.type = "text" THEN 50 ELSE 100)
        elementId == c.idCount + 1
        c1 == addElementMutation([c EXCEPT !.idCount = elementId],
                  [type |-> a.type, x |-> x, y |-> y, width |-> width, height |-> height])
    IN  [ctx |-> IF a.shapeId # ""
                 THEN Register(c1, a.shapeId, elementId,
                               [x |-> x, y |-> y, width |-> width, height |-> height], a.type)
                 ELSE c1,
         success |-> TRUE, updates |-> <<>>]

\* the angles of the calls made here are 0 degrees for a relative position
\* (cos 1, sin 0) and index 0 on a circle (the top of it), where the
\* floating-point position is the whole pixel
handleCreateShape(a, c) ==
    LET finalWidth == Nullish(a.width, IF a.type = "text" THEN 200 ELSE 150)
        finalHeight == Nullish(a.height, IF a.type = "text" THEN 50 ELSE 100)
    IN  IF a.relativeToShapeId # "" /\ a.angle # <<>> /\ a.distance # <<>>
        THEN IF a.relativeToShapeId \notin DOMAIN c.shapeData
             THEN Failure(c)
             ELSE LET refShape == c.shapeData[a.relativeToShapeId]
                      newCenterX == CenterX(refShape) + a.distance[1]
                      newCenterY == CenterY(refShape)
                  IN  CreateShapeAt(a, c, <<newCenterX - (finalWidth \div 2)>>,
                                          <<newCenterY - (finalHeight \div 2)>>)
        ELSE IF a.gridPosition # <<>>
        THEN LET g == a.gridPosition[1]
                 centerX == Nullish(g.startX, 100) + g.col * Nullish(g.colSpacing, 200)
                 centerY == Nullish(g.startY, 100) + g.row * Nullish(g.rowSpacing, 150)
             IN  CreateShapeAt(a, c, <<centerX - (finalWidth \div 2)>>,
                                     <<centerY - (finalHeight \div 2)>>)
        ELSE IF a.circularPosition # <<>>
        THEN LET p == a.circularPosition[1]
             IN  CreateShapeAt(a, c, <<p.centerX - (finalWidth \div 2)>>,
                                     <<p.centerY - p.radius - (finalHeight \div 2)>>)
        ELSE IF a.autoConnect /\ a.type \in {"arrow", "line"}
        THEN handleAutoConnect(a, c)
        ELSE CreateShapeAt(a, c, a.x, a.y)

handleGetShapeInfo(a, c) ==
    LET shapeId == IF a.id # "" THEN a.id ELSE a.shapeId
    IN  IF shapeId = "" THEN Failure(c)
        ELSE IF shapeId \notin DOMAIN c.shapeRegistry \/ shapeId \notin DOMAIN c.shapeData
        THEN Failure(c)
        ELSE [ctx |-> c, success |-> TRUE, updates |-> <<>>]

\* updates is the list handed to ctx.updateElements
handleUpdateShape(a, c) ==
    LET shapeId == IF a.id # "" THEN a.id ELSE a.shapeId
    IN  IF shapeId = "" THEN Failure(c)
        ELSE IF shapeId \notin DOMAIN c.shapeRegistry \/ shapeId \notin DOMAIN c.shapeData
        THEN Failure(c)
        ELSE LET shapeData == c.shapeData[shapeId]
                 x == IF a.x # <<>> THEN a.x ELSE a.properties.x
                 y == IF a.y # <<>> THEN a.y ELSE a.properties.y
                 width == IF a.width # <<>> THEN a.width ELSE a.properties.width
                 height == IF a.height # <<>> THEN a.height ELSE a.properties.height
                 merged == [x |-> Nullish(x, shapeData.x), y |-> Nullish(y, shapeData.y),
                            width |-> Nullish(width, shapeData.width),
                            height |-> Nullish(height, shapeData.height)]
             IN  [ctx |-> [c EXCEPT !.shapeData =
                                MapSet(@, shapeId, merged @@ [type |-> shapeData.type])],
                  success |-> TRUE,
                  updates |-> <<[id |-> c.shapeRegistry[shapeId]] @@ merged>>]

\* ctx.clearCanvas() empties the canvas
handleClearCanvas(c) ==
    [ctx |-> [c EXCEPT !.elements = <<>>, !.connections = <<>>,
                       !.shapeRegistry = EmptyMap, !.shapeData = EmptyMap],
     success |-> TRUE, updates |-> <<>>]

\* shapes with and without a shape id, placed by default, absolutely,
\* relative to "a" or to an unknown shape, on the grid, on a circle; an arrow
\* between "a" and "b"
CreateShapeCalls ==
    {[NoShapeArgs EXCEPT !.shapeId = id] : id \in {"", "a", "b"}}
    \cup {[NoShapeArgs EXCEPT !.type = "text", !.shapeId = "b", !.x = <<300>>, !.y = <<0>>]}
    \cup {[NoShapeArgs EXCEPT !.shapeId = "b", !.relativeToShapeId = r,
                              !.angle = <<0>>, !.distance = <<250>>] : r \in {"a", "z"}}
    \cup {[NoShapeArgs EXCEPT !.shapeId = "c",
              !.gridPosition = <<[row |-> 1, col |-> 2, rowSpacing |-> <<>>, colSpacing |-> <<>>,
                                  startX |-> <<>>, startY |-> <<>>]>>]}
    \cup {[NoShapeArgs EXCEPT !.shapeId = "c", !.width = <<80>>,
              !.circularPosition = <<[centerX |-> 400, centerY |-> 300, radius |-> 200,
                                      index |-> 0, total |-> 4]>>]}
    \cup {[NoShapeArgs EXCEPT !.type = "arrow", !.shapeId = "d", !.autoConnect = TRUE,
                              !.fromShapeId = "a", !.toShapeId = "b"]}

UpdateShapeCalls ==
    {[NoUpdateArgs EXCEPT !.id = id, !.x = <<40>>] : id \in {"", "a", "b"}}
    \cup {[NoUpdateArgs EXCEPT !.shapeId = "a", !.properties.width = <<60>>]}

GetShapeInfoCalls ==
    {[id |-> "a", shapeId |-> ""], [id |-> "", shapeId |-> "b"], [id |-> "", shapeId |-> ""]}

\* one diagram, one network diagram and one flowchart over the ids a, b, c,
\* and each handler called without its nodes
ToolDiagramCalls ==
    {[NoCall EXCEPT !.handler = "handleCreateDiagram"],
     [NoCall EXCEPT !.handler = "handleCreateDiagram", !.hasNodes = TRUE,
                    !.nodes = <<PlainNode("a"), PlainNode("b")>>, !.layout = "grid"]}

ToolNetworkCalls ==
    {[NoCall EXCEPT !.handler = "handleCreateNetworkDiagram", !.hasNodes = TRUE,
                    !.nodes = <<NetworkNode("a"), NetworkNode("c")>>, !.topology = "bus"]}

ToolFlowchartCalls ==
    {NoFlowCall,
     [NoFlowCall EXCEPT !.hasSteps = TRUE,
                        !.steps = <<FlowStep("a", "start", 5, ""), FlowStep("b", "process", 12, "")>>,
                        !.hasConnections = TRUE,
                        !.connections = <<[from |-> "a", to |-> "b"]>>]}

NoToolCall ==
    [tool |-> "none", calls |-> 0, success |-> FALSE, updates |-> <<>>, before |-> EmptyCtx]

ToolIdle == toolCall = NoToolCall

\* the handler's outcome is recorded with the canvas it was called on
Called(name, out) ==
    /\ ctx' = out.ctx
    /\ toolCall' = [tool |-> name, calls |-> toolCall.calls + 1, success |-> out.success,
                    updates |-> out.updates, before |-> ctx]

LateIdle == PollIdle /\ StoreIdle /\ MindIdle /\ StepIdle /\ RateIdle /\ ToolIdle

-----------------------------------------------------------------------------
(* The layouts as a state machine: one call on chosen arguments *)

LayoutInit ==
    /\ nodes \in NodeLists
    /\ edges \in EdgeLists
    /\ options \in OptionChoices
    /\ layout = NoLayout
    /\ again = NoLayout
    /\ HandlersIdle /\ BeautifyIdle /\ ConnectorIdle /\ RoundedIdle /\ NewIdle
    /\ LateIdle

TreeLayout ==
    /\ layout.algo = "none"
    /\ layout' = [algo |-> "tree"] @@ treeLayout(nodes, edges, options)
    /\ UNCHANGED <<nodes, edges, options, again, hvars, bvars, cvars, rvars, nvars, xvars>>

CircularLayout ==
    /\ layout.algo = "none"
    /\ layout' = [algo |-> "circular"] @@ circularLayout(nodes, edges, options)
    /\ UNCHANGED <<nodes, edges, options, again, hvars, bvars, cvars, rvars, nvars, xvars>>

GridLayout ==
    /\ layout.algo = "none"
    /\ layout' = [algo |-> "grid"] @@ gridLayout(nodes, edges, options)
    /\ UNCHANGED <<nodes, edges, options, again, hvars, bvars, cvars, rvars, nvars, xvars>>

DagreLayout ==
    /\ layout.algo = "none"
    /\ layout' = [algo |-> "dagre"] @@ dagreLayout(nodes, edges, options)
    /\ UNCHANGED <<nodes, edges, options, again, hvars, bvars, cvars, rvars, nvars, xvars>>

RadialLayout ==
    /\ layout.algo = "none"
    /\ layout' = [algo |-> "radial"] @@ radialLayout(nodes, edges, options)
    /\ UNCHANGED <<nodes, edges, options, again, hvars, bvars, cvars, rvars, nvars, xvars>>

ForceDirectedLayout ==
    /\ layout.algo = "none"
    /\ \E settle \in SettleChoices :
          layout' = [algo |-> "force-directed"] @@ forceDirectedLayout(nodes, edges, options, settle)
    /\ UNCHANGED <<nodes, edges, options, again, hvars, bvars, cvars, rvars, nvars, xvars>>

LayoutNext ==
    \/ TreeLayout
    \/ CircularLayout
    \/ GridLayout
    \/ DagreLayout
    \/ RadialLayout
    \/ ForceDirectedLayout

SpecLayout == LayoutInit /\ [][LayoutNext]_vars

(* The same call made a second time: the arguments are the objects the first
   call left behind, the result goes to `again` *)

TreeLayoutAgain ==
    /\ layout.algo = "tree" /\ again.algo = "none"
    /\ again' = [algo |-> "tree"] @@ treeLayout(nodes, edges, options)
    /\ UNCHANGED <<nodes, edges, options, layout, hvars, bvars, cvars, rvars, nvars, xvars>>

CircularLayoutAgain ==
    /\ layout.algo = "circular" /\ again.algo = "none"
    /\ again' = [algo |-> "circular"] @@ circularLayout(nodes, edges, options)
    /\ UNCHANGED <<nodes, edges, options, layout, hvars, bvars, cvars, rvars, nvars, xvars>>

GridLayoutAgain ==
    /\ layout.algo = "grid" /\ again.algo = "none"
    /\ again' = [algo |-> "grid"] @@ gridLayout(nodes, edges, options)
    /\ UNCHANGED <<nodes, edges, options, layout, hvars, bvars, cvars, rvars, nvars, xvars>>

DagreLayoutAgain ==
    /\ layout.algo = "dagre" /\ again.algo = "none"
    /\ again' = [algo |-> "dagre"] @@ dagreLayout(nodes, edges, options)
    /\ UNCHANGED <<nodes, edges, options, layout, hvars, bvars, cvars, rvars, nvars, xvars>>

\* the second call draws its own Math.random() values
ForceDirectedLayoutAgain ==
    /\ layout.algo = "force-directed" /\ again.algo = "none"
    /\ \E settle \in SettleChoices :
          again' = [algo |-> "force-directed"] @@ forceDirectedLayout(nodes, edges, options, settle)
    /\ UNCHANGED <<nodes, edges, options, layout, hvars, bvars, cvars, rvars, nvars, xvars>>

RepeatNext ==
    \/ TreeLayout
    \/ CircularLayout
    \/ GridLayout
    \/ DagreLayout
    \/ ForceDirectedLayout
    \/ TreeLayoutAgain
    \/ CircularLayoutAgain
    \/ GridLayoutAgain
    \/ DagreLayoutAgain
    \/ ForceDirectedLayoutAgain

SpecRepeat == LayoutInit /\ [][RepeatNext]_vars

-----------------------------------------------------------------------------
(* The tool handlers as a state machine: each step is one handler call *)

MaxLinks == 1

LinkLists == SeqsUpTo(EdgeSet, MaxLinks)

\* <<centerNodeId, rootNodeId>>: absent (""), the first node, or the last of NodeOrder
HubChoices == {<<"", "">>, <<"a", "a">>, <<"c", "c">>, <<"", "a">>, <<"a", "">>}

\* nodes without fixed positions, as a prefix of NodeOrder
PlainNodeLists == {[i \in 1..n |-> PlainNode(NodeOrder[i])] : n \in 0..Len(NodeOrder)}

TopologyChoices == {"star", "ring", "mesh", "tree", "bus", "hybrid"}

LayoutChoices == {"tree", "circular", "grid", "force-directed", "hexagonal"}

NetworkCalls(handler) ==
    {[NoCall EXCEPT !.handler = handler]} \cup
    {[NoCall EXCEPT !.handler = handler, !.hasNodes = TRUE, !.nodes = ns, !.links = ls,
                    !.topology = t, !.centerNodeId = hub[1], !.rootNodeId = hub[2]] :
        ns \in NetworkNodeLists, ls \in LinkLists, t \in TopologyChoices, hub \in HubChoices}

DiagramCalls(handler) ==
    {[NoCall EXCEPT !.handler = handler]} \cup
    {[NoCall EXCEPT !.handler = handler, !.hasNodes = TRUE, !.nodes = ns, !.links = ls,
                    !.layout = l, !.layoutOptions = o] :
        ns \in PlainNodeLists, ls \in LinkLists, l \in LayoutChoices, o \in OptionChoices}

\* the canvas an earlier, successful call has left: one registered shape
SeededCtx ==
    handleCreateDiagram([NoCall EXCEPT !.hasNodes = TRUE, !.nodes = <<PlainNode("a")>>,
                                       !.layout = "grid"],
                        EmptyCtx, CHOOSE s \in SettleChoices : TRUE).ctx

\* the call's arguments are recorded, the canvas and the result are what the handler left
Deliver(a, out) == args' = a /\ ctx' = out.ctx /\ result' = out.result

HandlersInit ==
    /\ args = NoCall /\ result = NoResult
    /\ ctx \in {EmptyCtx, SeededCtx}
    /\ LayoutIdle /\ BeautifyIdle /\ ConnectorIdle /\ RoundedIdle /\ NewIdle
    /\ LateIdle

HandleCreateNetworkDiagram ==
    /\ result.status = "none"
    /\ \E a \in NetworkCalls("handleCreateNetworkDiagram"), settle \in SettleChoices :
          Deliver(a, handleCreateNetworkDiagram(a, ctx, settle))
    /\ UNCHANGED <<lvars, bvars, cvars, rvars, nvars, xvars>>

LegacyCreateNetworkDiagram ==
    /\ result.status = "none"
    /\ \E a \in NetworkCalls("legacy handleCreateNetworkDiagram"), settle \in SettleChoices :
          Deliver(a, LegacyHandleCreateNetworkDiagram(a, ctx, settle))
    /\ UNCHANGED <<lvars, bvars, cvars, rvars, nvars, xvars>>

HandleCreateDiagram ==
    /\ result.status = "none"
    /\ \E a \in DiagramCalls("handleCreateDiagram"), settle \in SettleChoices :
          Deliver(a, handleCreateDiagram(a, ctx, settle))
    /\ UNCHANGED <<lvars, bvars, cvars, rvars, nvars, xvars>>

LegacyCreateDiagram ==
    /\ result.status = "none"
    /\ \E a \in DiagramCalls("legacy handleCreateDiagram"), settle \in SettleChoices :
          Deliver(a, LegacyHandleCreateDiagram(a, ctx, settle))
    /\ UNCHANGED <<lvars, bvars, cvars, rvars, nvars, xvars>>

HandlersNext ==
    \/ HandleCreateNetworkDiagram
    \/ LegacyCreateNetworkDiagram
    \/ HandleCreateDiagram
    \/ LegacyCreateDiagram

SpecHandlers == HandlersInit /\ [][HandlersNext]_vars

-----------------------------------------------------------------------------
(* Beautify as a state machine: repeated handleBeautifyDiagram calls on a canvas *)

BeautifyInit ==
    /\ canvas \in Canvases /\ updates = <<>> /\ passes = 0
    /\ LayoutIdle /\ HandlersIdle /\ ConnectorIdle /\ RoundedIdle /\ NewIdle
    /\ LateIdle

HandleBeautifyDiagram ==
    /\ passes < MaxPasses
    /\ updates' = beautifyDiagram(canvas)
    /\ canvas' = handleBeautifyDiagram(canvas)
    /\ passes' = passes + 1
    /\ UNCHANGED <<lvars, hvars, cvars, rvars, nvars, xvars>>

BeautifyNext ==
    \/ HandleBeautifyDiagram

SpecBeautify == BeautifyInit /\ [][BeautifyNext]_vars

-----------------------------------------------------------------------------
(* The connector router as a state machine: one generateConnectorPath call *)

ConnectorInit ==
    /\ elements \in ShapeLists /\ connection \in ConnectionChoices /\ routed = NoPath
    /\ LayoutIdle /\ HandlersIdle /\ BeautifyIdle /\ RoundedIdle /\ NewIdle
    /\ LateIdle

GenerateConnectorPath ==
    /\ ~routed.called
    /\ routed' = generateConnectorPath(elements, connection)
    /\ UNCHANGED <<lvars, hvars, bvars, elements, connection, rvars, nvars, xvars>>

ConnectorNext ==
    \/ GenerateConnectorPath

SpecConnector == ConnectorInit /\ [][ConnectorNext]_vars

-----------------------------------------------------------------------------
(* buildRoundedPath on chosen polylines *)

RoundedInit ==
    /\ polyline \in Polylines /\ requested \in RadiusChoices /\ rounded = NoRounded
    /\ LayoutIdle /\ HandlersIdle /\ BeautifyIdle /\ ConnectorIdle /\ NewIdle
    /\ LateIdle

BuildRoundedPath ==
    /\ ~rounded.called
    /\ rounded' = [called |-> TRUE, path |-> buildRoundedPath(polyline, requested)]
    /\ UNCHANGED <<lvars, hvars, bvars, cvars, polyline, requested, nvars, xvars>>

RoundedNext ==
    \/ BuildRoundedPath

SpecRounded == RoundedInit /\ [][RoundedNext]_vars


-----------------------------------------------------------------------------
(* The analyzer as a state machine: one analyzeDiagram call on a canvas *)

AnalyzerInit ==
    /\ canvas \in AnalyzedCanvases /\ updates = <<>> /\ passes = 0
    /\ analysis = NoAnalysis
    /\ LayoutIdle /\ HandlersIdle /\ ConnectorIdle /\ RoundedIdle
    /\ EdgeIdle /\ CurveIdle /\ OrgIdle /\ FlowIdle
    /\ LateIdle

AnalyzeDiagram ==
    /\ ~analysis.called
    /\ analysis' = analyzeDiagram(canvas)
    /\ UNCHANGED <<lvars, hvars, bvars, cvars, rvars, evars, kvars, ovars, fvars, xvars>>

AnalyzerNext ==
    \/ AnalyzeDiagram

SpecAnalyzer == AnalyzerInit /\ [][AnalyzerNext]_vars

-----------------------------------------------------------------------------
(* Edge intersection as a state machine: one calculateEdgeIntersection call *)

EdgeInit ==
    /\ edgeShape \in ShapeChoices /\ edgeAngle \in AngleChoices
    /\ WholeIntersection(edgeShape, edgeAngle)
    /\ hit = NoPoint
    /\ LayoutIdle /\ HandlersIdle /\ BeautifyIdle /\ ConnectorIdle /\ RoundedIdle
    /\ AnalyzerIdle /\ CurveIdle /\ OrgIdle /\ FlowIdle
    /\ LateIdle

CalculateEdgeIntersection ==
    /\ ~hit.called
    /\ hit' = [called |-> TRUE] @@ calculateEdgeIntersection(edgeShape, edgeAngle)
    /\ UNCHANGED <<lvars, hvars, bvars, cvars, rvars, avars, kvars, ovars, fvars, edgeShape, edgeAngle, xvars>>

EdgeNext ==
    \/ CalculateEdgeIntersection

SpecEdge == EdgeInit /\ [][EdgeNext]_vars

-----------------------------------------------------------------------------
(* Curved paths as a state machine: one calculateCurvedPath call *)

CurveInit ==
    /\ curveArgs \in CurveCalls /\ curve = NoCurve
    /\ LayoutIdle /\ HandlersIdle /\ BeautifyIdle /\ ConnectorIdle /\ RoundedIdle
    /\ AnalyzerIdle /\ EdgeIdle /\ OrgIdle /\ FlowIdle
    /\ LateIdle

CalculateCurvedPath ==
    /\ ~curve.called
    /\ curve' = [called |-> TRUE]
                    @@ calculateCurvedPath(curveArgs.start, curveArgs.end, curveArgs.curveAmount)
    /\ UNCHANGED <<lvars, hvars, bvars, cvars, rvars, avars, evars, ovars, fvars, curveArgs, xvars>>

CurveNext ==
    \/ CalculateCurvedPath

SpecCurve == CurveInit /\ [][CurveNext]_vars

-----------------------------------------------------------------------------
(* The org chart layout as a state machine: one orgChartLayout call; the   *)
(* hierarchy is the caller's array, which the call writes to               *)

OrgInit ==
    /\ hierarchy \in HierarchyChoices /\ orgOptions \in OrgOptionChoices
    /\ orgLayout = NoOrgLayout
    /\ LayoutIdle /\ HandlersIdle /\ BeautifyIdle /\ ConnectorIdle /\ RoundedIdle
    /\ AnalyzerIdle /\ EdgeIdle /\ CurveIdle /\ FlowIdle
    /\ LateIdle

OrgChartLayout ==
    /\ ~orgLayout.called
    /\ orgLayout' = [called |-> TRUE] @@ orgChartLayout(hierarchy, orgOptions)
    /\ hierarchy' = OrgHierarchyAfter(hierarchy)
    /\ UNCHANGED <<lvars, hvars, bvars, cvars, rvars, avars, evars, kvars, fvars, orgOptions, xvars>>

OrgNext ==
    \/ OrgChartLayout

SpecOrgChart == OrgInit /\ [][OrgNext]_vars

-----------------------------------------------------------------------------
(* Flowcharts as a state machine: a calculateFlowchartLayout call and a    *)
(* handleCreateFlowchart call on the same arguments and an empty canvas    *)

FlowInit ==
    /\ flowArgs \in FlowCalls /\ flowLayout = NoFlowLayout /\ flowResult = NoFlowResult
    /\ LayoutIdle /\ HandlersIdle /\ BeautifyIdle /\ ConnectorIdle /\ RoundedIdle
    /\ AnalyzerIdle /\ EdgeIdle /\ CurveIdle /\ OrgIdle
    /\ LateIdle

CalculateFlowchartLayout ==
    /\ ~flowLayout.called /\ flowArgs.hasSteps
    /\ flowLayout' = [called |-> TRUE]
            @@ calculateFlowchartLayout(flowArgs.steps, flowArgs.connections,
                                        IF flowArgs.direction = "" THEN "vertical" ELSE flowArgs.direction,
                                        Or(flowArgs.spacing, 100), flowArgs.swimlanes)
    /\ UNCHANGED <<lvars, hvars, bvars, cvars, rvars, avars, evars, kvars, ovars, flowArgs, flowResult, xvars>>

HandleCreateFlowchart ==
    /\ flowResult.status = "none"
    /\ flowResult' = handleCreateFlowchart(flowArgs, ctx).result
    /\ ctx' = handleCreateFlowchart(flowArgs, ctx).ctx
    /\ UNCHANGED <<lvars, args, result, bvars, cvars, rvars, avars, evars, kvars, ovars, flowArgs, flowLayout, xvars>>

FlowNext ==
    \/ CalculateFlowchartLayout
    \/ HandleCreateFlowchart

SpecFlowchart == FlowInit /\ [][FlowNext]_vars

-----------------------------------------------------------------------------
(* useAIDiagram as a state machine: every await is a step of its own *)

PollInit ==
    /\ PollIdle
    /\ LayoutIdle /\ HandlersIdle /\ BeautifyIdle /\ ConnectorIdle /\ RoundedIdle
    /\ AnalyzerIdle /\ EdgeIdle /\ CurveIdle /\ OrgIdle /\ FlowIdle
    /\ StoreIdle /\ MindIdle /\ StepIdle /\ RateIdle /\ ToolIdle

\* trigger(params) up to its first await: cancel(), a new controller, the POST
Trigger(r) ==
    /\ runs[r].pc = "new"
    /\ \A q \in Runs : q < r => runs[q].pc # "new"
    /\ LET c == cancel(hook, aborted)
       IN /\ aborted' = c.aborted
          /\ hook' = [c.hook EXCEPT !.current = r, !.status = "triggering",
                                    !.result = 0, !.error = 0]
          /\ runs' = [runs EXCEPT ![r] = [@ EXCEPT !.pc = "posting", !.signal = r]]
    /\ UNCHANGED <<lvars, hvars, bvars, cvars, rvars, avars, evars, kvars, ovars, fvars, svars, mvars, gvars, qvars, tvars>>

Cancel ==
    /\ \E r \in Runs : runs[r].pc # "new"
    /\ LET c == cancel(hook, aborted)
       IN hook' = c.hook /\ aborted' = c.aborted
    /\ UNCHANGED <<runs, lvars, hvars, bvars, cvars, rvars, avars, evars, kvars, ovars, fvars, svars, mvars, gvars, qvars, tvars>>

\* the POST settles: AbortError, an error reply, or a runId and the first poll
PostSettles(r) ==
    /\ runs[r].pc = "posting"
    /\ IF Rejected(runs[r])
       THEN /\ hook' = [hook EXCEPT !.status = "idle"]
            /\ runs' = [runs EXCEPT ![r] = [@ EXCEPT !.pc = "done"]]
       ELSE \E ok \in BOOLEAN :
               LET n == IF ok
                        THEN PollLoop([hook EXCEPT !.status = "running", !.pollCount = 0],
                                      runs[r])
                        ELSE Failed(hook, runs[r])
               IN hook' = n.hook /\ runs' = [runs EXCEPT ![r] = n.run]
    /\ UNCHANGED <<aborted, lvars, hvars, bvars, cvars, rvars, avars, evars, kvars, ovars, fvars, svars, mvars, gvars, qvars, tvars>>

\* the status request of pollForResult settles
FetchSettles(r) ==
    /\ runs[r].pc = "fetching"
    /\ IF Rejected(runs[r])
       THEN /\ runs' = [runs EXCEPT ![r] = [@ EXCEPT !.pc = "done"]]
            /\ hook' = hook
       ELSE \E reply \in {"COMPLETED", "FAILED", "EXECUTING"} :
               CASE reply = "COMPLETED" ->
                       /\ hook' = [hook EXCEPT !.result = r, !.status = "completed"]
                       /\ runs' = [runs EXCEPT ![r] = [@ EXCEPT !.pc = "done",
                                                                !.wrote = "completed"]]
                 [] reply = "FAILED" ->
                       LET n == Failed(hook, runs[r])
                       IN hook' = n.hook /\ runs' = [runs EXCEPT ![r] = n.run]
                 [] OTHER ->
                       /\ hook' = hook
                       /\ runs' = [runs EXCEPT ![r] = [@ EXCEPT !.pc = "sleeping"]]
    /\ UNCHANGED <<aborted, lvars, hvars, bvars, cvars, rvars, avars, evars, kvars, ovars, fvars, svars, mvars, gvars, qvars, tvars>>

\* the POLL_INTERVAL timer fires: pollCountRef.current++ and the loop goes round
TimerFires(r) ==
    /\ runs[r].pc = "sleeping"
    /\ LET n == PollLoop([hook EXCEPT !.pollCount = @ + 1], runs[r])
       IN hook' = n.hook /\ runs' = [runs EXCEPT ![r] = n.run]
    /\ UNCHANGED <<aborted, lvars, hvars, bvars, cvars, rvars, avars, evars, kvars, ovars, fvars, svars, mvars, gvars, qvars, tvars>>

PollNext ==
    \/ \E r \in Runs : Trigger(r)
    \/ Cancel
    \/ \E r \in Runs : PostSettles(r)
    \/ \E r \in Runs : FetchSettles(r)
    \/ \E r \in Runs : TimerFires(r)

SpecPoll == PollInit /\ [][PollNext]_vars

-----------------------------------------------------------------------------
(* The canvas store as a state machine *)

StoreInit ==
    /\ store \in {NoStore, [NoStore EXCEPT !.currentDiagramId = 1]}
    /\ debouncer = NoDebouncer /\ inflight = 0 /\ lastCall = NoSaveCall
    /\ LayoutIdle /\ HandlersIdle /\ BeautifyIdle /\ ConnectorIdle /\ RoundedIdle
    /\ AnalyzerIdle /\ EdgeIdle /\ CurveIdle /\ OrgIdle /\ FlowIdle
    /\ PollIdle /\ MindIdle /\ StepIdle /\ RateIdle /\ ToolIdle

\* addElement, updateElements, clearElements, addConnection, updateConnections,
\* clearConnections, clearAll: set(...), then debouncedAutoSave() if a diagram is open
StoreChange(op) ==
    /\ store.elements + store.connections < MaxChanges
    /\ store' = StoreSet(store, op)
    /\ debouncer' = IF store.currentDiagramId # 0 THEN debounced(debouncer) ELSE debouncer
    /\ UNCHANGED <<inflight, lastCall, lvars, hvars, bvars, cvars, rvars, avars, evars, kvars, ovars, fvars, pvars, mvars, gvars, qvars, tvars>>

\* the timer of debounce fires: func(...lastArgs), timeoutId = null, lastArgs = null
DebounceTimerFires ==
    /\ debouncer.timeoutId
    /\ LET t == IF debouncer.lastArgs THEN triggerAutoSave(store, inflight, lastCall)
                ELSE [store |-> store, inflight |-> inflight, lastCall |-> lastCall]
       IN store' = t.store /\ inflight' = t.inflight /\ lastCall' = t.lastCall
    /\ debouncer' = NoDebouncer
    /\ UNCHANGED <<lvars, hvars, bvars, cvars, rvars, avars, evars, kvars, ovars, fvars, pvars, mvars, gvars, qvars, tvars>>

\* saveDiagram() up to its await
SaveDiagram ==
    /\ store.currentDiagramId # 0
    /\ inflight < MaxInFlight /\ lastCall.count < MaxSaves
    /\ store' = [store EXCEPT !.isSaving = TRUE]
    /\ inflight' = inflight + 1
    /\ lastCall' = AutoSaveCalled(store, lastCall)
    /\ UNCHANGED <<debouncer, lvars, hvars, bvars, cvars, rvars, avars, evars, kvars, ovars, fvars, pvars, mvars, gvars, qvars, tvars>>

\* a diagramService.autoSave promise settles: .then / .catch set isSaving: false
SaveSettles ==
    /\ inflight > 0
    /\ inflight' = inflight - 1
    /\ store' = [store EXCEPT !.isSaving = FALSE]
    /\ UNCHANGED <<debouncer, lastCall, lvars, hvars, bvars, cvars, rvars, avars, evars, kvars, ovars, fvars, pvars, mvars, gvars, qvars, tvars>>

\* closeDiagram(): debouncedAutoSave.flush(), then currentDiagramId: null
CloseDiagram ==
    /\ store.currentDiagramId # 0
    /\ LET flushes == debouncer.timeoutId /\ debouncer.lastArgs
           t == IF flushes THEN triggerAutoSave(store, inflight, lastCall)
                ELSE [store |-> store, inflight |-> inflight, lastCall |-> lastCall]
       IN /\ store' = [t.store EXCEPT !.currentDiagramId = 0]
          /\ inflight' = t.inflight
          /\ lastCall' = t.lastCall
          /\ debouncer' = IF flushes THEN NoDebouncer ELSE debouncer
    /\ UNCHANGED <<lvars, hvars, bvars, cvars, rvars, avars, evars, kvars, ovars, fvars, pvars, mvars, gvars, qvars, tvars>>

StoreNext ==
    \/ \E op \in StoreOps : StoreChange(op)
    \/ DebounceTimerFires
    \/ SaveDiagram
    \/ SaveSettles
    \/ CloseDiagram

SpecStore == StoreInit /\ [][StoreNext]_vars

\* timers fire and every started save completes
SpecStoreFair ==
    /\ SpecStore
    /\ WF_vars(DebounceTimerFires)
    /\ WF_vars(SaveSettles)

-----------------------------------------------------------------------------
(* handleCreateMindMap as a state machine: one call on chosen arguments *)

MindInit ==
    /\ mindArgs \in {NoMindCall} \cup {[hasTopic |-> TRUE, branches |-> b] : b \in MindBranchLists}
    /\ mindResult = NoMindResult
    /\ LayoutIdle /\ HandlersIdle /\ BeautifyIdle /\ ConnectorIdle /\ RoundedIdle
    /\ AnalyzerIdle /\ EdgeIdle /\ CurveIdle /\ OrgIdle /\ FlowIdle
    /\ PollIdle /\ StoreIdle /\ StepIdle /\ RateIdle /\ ToolIdle

HandleCreateMindMap ==
    /\ mindResult.status = "none"
    /\ mindResult' = handleCreateMindMap(mindArgs)
    /\ UNCHANGED <<mindArgs, lvars, hvars, bvars, cvars, rvars, avars, evars, kvars, ovars, fvars, pvars, svars, gvars, qvars, tvars>>

MindNext ==
    \/ HandleCreateMindMap

SpecMindMap == MindInit /\ [][MindNext]_vars

-----------------------------------------------------------------------------
(* radialLayout on larger graphs: enough nodes for more than one hub *)

MaxRadialNodes == 11

MaxIsolated == 3

RadialIds == <<"a", "b", "c", "d", "e", "f", "g", "h", "i", "j", "k", "l", "m", "n">>

\* a path, a path whose edges alternate in direction, or a cycle over the first
\* m ids, followed by n - m nodes without edges
RadialGraph(n, m, form) ==
    [nodes |-> [i \in 1..n |-> PlainNode(RadialIds[i])],
     edges |-> [i \in 1..(m - 1) |->
                   IF form = "zigzag" /\ i % 2 = 0
                   THEN [from |-> RadialIds[i + 1], to |-> RadialIds[i]]
                   ELSE [from |-> RadialIds[i], to |-> RadialIds[i + 1]]]
               \o (IF form = "cycle" /\ m >= 3
                   THEN <<[from |-> RadialIds[m], to |-> RadialIds[1]]>> ELSE <<>>)]

RadialGraphs ==
    {RadialGraph(n, m, form) :
        n \in 1..MaxRadialNodes, m \in 1..MaxRadialNodes, form \in {"path", "zigzag", "cycle"}}

RadialInit ==
    /\ \/ nodes \in NodeLists /\ edges \in EdgeLists
       \/ \E g \in RadialGraphs :
             /\ Len(g.nodes) - Len(g.edges) <= MaxIsolated + 1
             /\ Len(g.edges) < Len(g.nodes) + 1
             /\ nodes = g.nodes /\ edges = g.edges
    /\ options \in OptionChoices
    /\ layout = NoLayout
    /\ again = NoLayout
    /\ HandlersIdle /\ BeautifyIdle /\ ConnectorIdle /\ RoundedIdle /\ AnalyzerIdle
    /\ EdgeIdle /\ CurveIdle /\ OrgIdle /\ FlowIdle /\ PollIdle
    /\ StoreIdle /\ MindIdle /\ StepIdle /\ RateIdle /\ ToolIdle

RadialNext ==
    \/ RadialLayout

SpecRadial == RadialInit /\ [][RadialNext]_vars

-----------------------------------------------------------------------------
(* getSmoothStepPath as a state machine: one call on chosen arguments *)

StepInit ==
    /\ stepArgs \in StepCalls
    /\ stepPath = NoStepPath
    /\ LayoutIdle /\ HandlersIdle /\ BeautifyIdle /\ ConnectorIdle /\ RoundedIdle
    /\ AnalyzerIdle /\ EdgeIdle /\ CurveIdle /\ OrgIdle /\ FlowIdle
    /\ PollIdle /\ StoreIdle /\ MindIdle /\ RateIdle /\ ToolIdle

\* getSmoothStepPath with the default borderRadius; points is the polyline it
\* hands to buildRoundedPath
GetSmoothStepPath ==
    /\ ~stepPath.called
    /\ stepPath' =
          [called |-> TRUE,
           points |-> SmoothStepPoints(stepArgs.s, stepArgs.t,
                                       stepArgs.sourceHandle, stepArgs.targetHandle)]
          @@ getSmoothStepPath(stepArgs.s, stepArgs.t,
                               stepArgs.sourceHandle, stepArgs.targetHandle, 8)
    /\ UNCHANGED <<stepArgs, lvars, hvars, bvars, cvars, rvars, avars, evars, kvars, ovars, fvars, pvars, svars, mvars, qvars, tvars>>

StepNext ==
    \/ GetSmoothStepPath

SpecSmoothStep == StepInit /\ [][StepNext]_vars

-----------------------------------------------------------------------------
(* The rate limiter as a state machine: requests, the clock, the cleanup timer *)

RateInit ==
    /\ rateLimitStore = EmptyRateLimitStore
    /\ now = 0
    /\ checks = <<>>
    /\ LayoutIdle /\ HandlersIdle /\ BeautifyIdle /\ ConnectorIdle /\ RoundedIdle
    /\ AnalyzerIdle /\ EdgeIdle /\ CurveIdle /\ OrgIdle /\ FlowIdle
    /\ PollIdle /\ StoreIdle /\ MindIdle /\ StepIdle /\ ToolIdle

\* middleware() on an /api/ request: one call of checkRateLimit
CheckRateLimit(identifier) ==
    /\ Len(checks) < MaxRequests
    /\ LET r == checkRateLimit(rateLimitStore, identifier, ConfigOf(identifier), now)
       IN  /\ rateLimitStore' = r.st
           /\ checks' = Append(checks,
                  [identifier |-> identifier, at |-> now, allowed |-> r.allowed,
                   remaining |-> r.remaining, resetIn |-> r.resetIn,
                   before |-> rateLimitStore, after |-> r.st])
    /\ UNCHANGED <<now, lvars, hvars, bvars, cvars, rvars, avars, evars, kvars, ovars, fvars, pvars, svars, mvars, gvars, tvars>>

\* Date.now() moves on
ClockTicks ==
    /\ now < MaxNow
    /\ now' = now + 1
    /\ UNCHANGED <<rateLimitStore, checks, lvars, hvars, bvars, cvars, rvars, avars, evars, kvars, ovars, fvars, pvars, svars, mvars, gvars, tvars>>

\* the setInterval callback
CleanupRateLimitStore ==
    /\ rateLimitStore' = cleanupRateLimitStore(rateLimitStore, now)
    /\ rateLimitStore' # rateLimitStore
    /\ UNCHANGED <<now, checks, lvars, hvars, bvars, cvars, rvars, avars, evars, kvars, ovars, fvars, pvars, svars, mvars, gvars, tvars>>

RateNext ==
    \/ \E identifier \in Identifiers : CheckRateLimit(identifier)
    \/ ClockTicks
    \/ CleanupRateLimitStore

SpecRateLimit == RateInit /\ [][RateNext]_vars

-----------------------------------------------------------------------------
(* The tool handlers called one after another on the same canvas *)

ToolsInit ==
    /\ args = NoCall /\ result = NoResult
    /\ ctx \in {EmptyCtx, SeededCtx}
    /\ toolCall = NoToolCall
    /\ LayoutIdle /\ BeautifyIdle /\ ConnectorIdle /\ RoundedIdle /\ AnalyzerIdle
    /\ EdgeIdle /\ CurveIdle /\ OrgIdle /\ FlowIdle /\ PollIdle
    /\ StoreIdle /\ MindIdle /\ StepIdle /\ RateIdle

CallCreateShape ==
    /\ toolCall.calls < MaxToolCalls
    /\ \E a \in CreateShapeCalls : Called("handleCreateShape", handleCreateShape(a, ctx))
    /\ UNCHANGED <<args, result, lvars, bvars, cvars, rvars, avars, evars, kvars, ovars, fvars, pvars, svars, mvars, gvars, qvars>>

CallUpdateShape ==
    /\ toolCall.calls < MaxToolCalls
    /\ \E a \in UpdateShapeCalls : Called("handleUpdateShape", handleUpdateShape(a, ctx))
    /\ UNCHANGED <<args, result, lvars, bvars, cvars, rvars, avars, evars, kvars, ovars, fvars, pvars, svars, mvars, gvars, qvars>>

CallGetShapeInfo ==
    /\ toolCall.calls < MaxToolCalls
    /\ \E a \in GetShapeInfoCalls : Called("handleGetShapeInfo", handleGetShapeInfo(a, ctx))
    /\ UNCHANGED <<args, result, lvars, bvars, cvars, rvars, avars, evars, kvars, ovars, fvars, pvars, svars, mvars, gvars, qvars>>

CallClearCanvas ==
    /\ toolCall.calls < MaxToolCalls
    /\ Called("handleClearCanvas", handleClearCanvas(ctx))
    /\ UNCHANGED <<args, result, lvars, bvars, cvars, rvars, avars, evars, kvars, ovars, fvars, pvars, svars, mvars, gvars, qvars>>

CallCreateDiagram ==
    /\ toolCall.calls < MaxToolCalls
    /\ \E a \in ToolDiagramCalls, settle \in SettleChoices :
          LET out == handleCreateDiagram(a, ctx, settle)
          IN  Called("handleCreateDiagram",
                     [ctx |-> out.ctx, success |-> out.result.success, updates |-> <<>>])
    /\ UNCHANGED <<args, result, lvars, bvars, cvars, rvars, avars, evars, kvars, ovars, fvars, pvars, svars, mvars, gvars, qvars>>

CallCreateNetworkDiagram ==
    /\ toolCall.calls < MaxToolCalls
    /\ \E a \in ToolNetworkCalls, settle \in SettleChoices :
          LET out == handleCreateNetworkDiagram(a, ctx, settle)
          IN  Called("handleCreateNetworkDiagram",
                     [ctx |-> out.ctx, success |-> out.result.success, updates |-> <<>>])
    /\ UNCHANGED <<args, result, lvars, bvars, cvars, rvars, avars, evars, kvars, ovars, fvars, pvars, svars, mvars, gvars, qvars>>

CallCreateFlowchart ==
    /\ toolCall.calls < MaxToolCalls
    /\ \E a \in ToolFlowchartCalls :
          LET out == handleCreateFlowchart(a, ctx)
          IN  Called("handleCreateFlowchart",
                     [ctx |-> out.ctx, success |-> out.result.success, updates |-> <<>>])
    /\ UNCHANGED <<args, result, lvars, bvars, cvars, rvars, avars, evars, kvars, ovars, fvars, pvars, svars, mvars, gvars, qvars>>

ToolsNext ==
    \/ CallCreateShape
    \/ CallUpdateShape
    \/ CallGetShapeInfo
    \/ CallClearCanvas
    \/ CallCreateDiagram
    \/ CallCreateNetworkDiagram
    \/ CallCreateFlowchart

SpecTools == ToolsInit /\ [][ToolsNext]_vars

-----------------------------------------------------------------------------
(* Properties of the generic layouts *)

\* every edge joins two input nodes
EdgesOverNodes == \A i \in DOMAIN edges : edges[i].from \in NodeIdSet(nodes) /\ edges[i].to \in NodeIdSet(nodes)

\* the ids reachable from id by one or more edges
RECURSIVE ReachFrom(_, _)
ReachFrom(es, seen) ==
    LET more == seen \cup {es[i].to : i \in {j \in DOMAIN es : es[j].from \in seen}}
    IN IF more = seen THEN seen ELSE ReachFrom(es, more)

Descendants(es, id) == ReachFrom(es, {es[i].to : i \in {j \in DOMAIN es : es[j].from = id}})

Acyclic(es) == \A id \in NodeIds : id \notin Descendants(es, id)

\* the level (row, from 0) of a node that treeLayout placed
TreeLevelOf(id) == GroupOf(layout.aux, id)[1] - 1

\* C1: for an acyclic edge set over the input nodes, treeLayout places the target
\* of every edge at least one level below its source.
C1_TreeLevelBelowParents ==
    (layout.algo = "tree" /\ EdgesOverNodes /\ Acyclic(edges)) =>
        /\ ~layout.thrown
        /\ \A i \in DOMAIN edges :
              /\ edges[i].from \in GroupIds(layout.aux)
              /\ edges[i].to \in GroupIds(layout.aux)
              /\ TreeLevelOf(edges[i].to) >= TreeLevelOf(edges[i].from) + 1

\* C2: a call of treeLayout, dagreLayout, radialLayout or forceDirectedLayout with
\* an edge that names an id of no input node does not throw and returns a
\* position for every input node.
C2_DanglingEdgeSkipped ==
    (layout.algo \in {"tree", "dagre", "radial", "force-directed"} /\ ~EdgesOverNodes) =>
        /\ ~layout.thrown
        /\ DOMAIN layout.nodes = NodeIdSet(nodes)

\* C3: dagreLayout returns (so it terminated) exactly one position for every input
\* node, for every edge set over the node ids, cyclic or not.
C3_DagrePlacesEveryNode ==
    (layout.algo = "dagre" /\ EdgesOverNodes) =>
        /\ ~layout.thrown
        /\ DOMAIN layout.nodes = NodeIdSet(nodes)

\* every node lies on a cycle, and every two nodes are joined by an edge
C3_Witness ==
    /\ layout.algo = "dagre"
    /\ Len(nodes) = 3
    /\ EdgesOverNodes
    /\ \A id \in NodeIdSet(nodes) : id \in Descendants(edges, id)
    /\ \A p \in NodeIdSet(nodes), q \in NodeIdSet(nodes) :
          p # q => \E i \in DOMAIN edges : {edges[i].from, edges[i].to} = {p, q}
    /\ DOMAIN layout.nodes = NodeIdSet(nodes)

\* C9: in every generic layout a node with fixed = true and explicit x and y is in
\* the result at exactly those coordinates.  (Only nodes the result holds are
\* looked at, so that a node left out by the layout is not counted against it.)
C9_FixedNodesKeepPosition ==
    (layout.algo # "none" /\ ~layout.thrown) =>
        \A i \in DOMAIN nodes :
            (nodes[i].fixed /\ nodes[i].hasX /\ nodes[i].hasY /\ nodes[i].id \in DOMAIN layout.nodes) =>
                /\ layout.nodes[nodes[i].id].x = nodes[i].x
                /\ layout.nodes[nodes[i].id].y = nodes[i].y

-----------------------------------------------------------------------------
(* Properties of the tool handlers *)

NetworkHandlers == {"handleCreateNetworkDiagram", "legacy handleCreateNetworkDiagram"}

DiagramHandlers == {"handleCreateDiagram", "legacy handleCreateDiagram"}

\* a network call whose topology needs a hub id that the call does not carry
MissingHub(a) ==
    /\ a.handler \in NetworkHandlers /\ a.hasNodes
    /\ \/ a.topology = "star" /\ a.centerNodeId = ""
       \/ a.topology = "tree" /\ a.rootNodeId = ""

\* C4: a handleCreateNetworkDiagram call with topology star and no centerNodeId, or
\* topology tree and no rootNodeId, returns success = false and in that call leaves
\* the elements, the connections, shapeRegistry and shapeData as they were.
C4_MissingHubRejected ==
    [][MissingHub(args') =>
          /\ result'.status = "returned" /\ ~result'.success
          /\ ctx' = ctx]_vars

C4_Witness ==
    /\ args.handler = "handleCreateNetworkDiagram" /\ args.topology = "tree"
    /\ args.rootNodeId = "" /\ args.centerNodeId = "a" /\ Len(args.nodes) = 3
    /\ result.status = "returned" /\ ~result.success
    /\ ctx = SeededCtx /\ Len(ctx.elements) = 1

\* a call whose layout or topology is outside the supported set
Unrecognised(a) ==
    /\ a.hasNodes
    /\ \/ a.handler \in DiagramHandlers
          /\ a.layout \notin {"tree", "circular", "grid", "force-directed"}
       \/ a.handler \in NetworkHandlers
          /\ a.topology \notin {"star", "ring", "mesh", "tree", "bus"}

\* C5: handleCreateDiagram with an unrecognised layout and handleCreateNetworkDiagram
\* with an unrecognised topology return success = false and create no elements.
C5_UnknownAlgorithmRejected ==
    [][Unrecognised(args') => ~result'.success /\ ctx'.elements = ctx.elements]_vars

\* the pair the rule gives for centre deltas dx, dy: the axis with the larger delta,
\* the horizontal pair on a tie, the two handles on opposite sides
FollowsHandleRule(dx, dy, sourceHandle, targetHandle) ==
    IF Abs(dy) > Abs(dx)
    THEN /\ <<sourceHandle, targetHandle>> \in {<<"bottom", "top">>, <<"top", "bottom">>}
         /\ dy > 0 => sourceHandle = "bottom"
         /\ dy < 0 => sourceHandle = "top"
    ELSE /\ <<sourceHandle, targetHandle>> \in {<<"right", "left">>, <<"left", "right">>}
         /\ dx > 0 => sourceHandle = "right"
         /\ dx < 0 => sourceHandle = "left"

\* C10: every connection a handler has put on the canvas with handles derived from
\* the node positions has the handle pair of the axis with the larger centre-to-centre
\* delta, the horizontal pair on a tie, and its two handles on opposite sides.
C10_HandlesFollowLargerDelta ==
    \A i \in DOMAIN ctx.connections : \A s, t \in DOMAIN ctx.shapeRegistry :
        (ctx.shapeRegistry[s] = ctx.connections[i].sourceId
            /\ ctx.shapeRegistry[t] = ctx.connections[i].targetId) =>
        FollowsHandleRule(CenterX(ctx.shapeData[t]) - CenterX(ctx.shapeData[s]),
                          CenterY(ctx.shapeData[t]) - CenterY(ctx.shapeData[s]),
                          ctx.connections[i].sourceHandle, ctx.connections[i].targetHandle)

-----------------------------------------------------------------------------
(* Properties of beautifyDiagram *)

\* C6: beautify reaches a fixed point after one application: once the updates of a
\* first call have been applied, the next beautifyDiagram call returns no update.
C6_BeautifyFixedPointAfterOnePass ==
    passes = 2 => updates = <<>>

-----------------------------------------------------------------------------
(* Properties of the connector router *)

\* the midpoint of the side of el that the handle names
SideMidpoint(el, handle) ==
    CASE handle = "top" -> <<el.x + el.width \div 2, el.y>>
      [] handle = "bottom" -> <<el.x + el.width \div 2, el.y + el.height>>
      [] handle = "left" -> <<el.x, el.y + el.height \div 2>>
      [] handle = "right" -> <<el.x + el.width, el.y + el.height \div 2>>

\* the handle of one end: the connection's own, or else the auto-derived one
EndHandle(own, derived) == IF own # "" THEN own ELSE derived

\* C7: when generateConnectorPath returns a path, whatever the path type and the
\* handle pair, the path starts at the midpoint of the source handle's side and
\* ends at the midpoint of the target handle's side.
C7_PathJoinsAnchors ==
    (routed.called /\ ~routed.isNull) =>
        /\ Len(routed.path) >= 2
        /\ routed.path[1].op = "M"
        /\ <<routed.path[1].x, routed.path[1].y>>
             = SideMidpoint(elements[1],
                   EndHandle(connection.sourceHandle,
                             autoHandlePositions(elements[1], elements[2]).sourceHandle))
        /\ <<routed.path[Len(routed.path)].x, routed.path[Len(routed.path)].y>>
             = SideMidpoint(elements[2],
                   EndHandle(connection.targetHandle,
                             autoHandlePositions(elements[1], elements[2]).targetHandle))

C7_Witness ==
    /\ routed.called /\ ~routed.isNull
    /\ connection.pathType = "" /\ connection.sourceHandle = "right"
    /\ connection.targetHandle = ""
    /\ autoHandlePositions(elements[1], elements[2]).targetHandle = "top"
    /\ \E k \in DOMAIN routed.path : routed.path[k].op = "Q"
    /\ <<routed.sourceX, routed.sourceY>> # <<routed.targetX, routed.targetY>>

\* the interior vertices of the polyline whose two segments both have a length
ArcVertices ==
    {i \in 2..Len(polyline) - 1 :
        polyline[i - 1] # polyline[i] /\ polyline[i] # polyline[i + 1]}

ArcCommands == {k \in DOMAIN rounded.path : rounded.path[k].op = "Q"}

\* the n-th smallest member of a set of numbers
NthOf(S, n) == CHOOSE v \in S : Cardinality({w \in S : w < v}) = n - 1

SquaredDistance(p, q) == (q.x - p.x) * (q.x - p.x) + (q.y - p.y) * (q.y - p.y)

\* C8: the arc buildRoundedPath inserts at an interior vertex starts and ends at
\* distance r from the vertex, r = min(requested radius, half the shorter of the two
\* adjacent segments); so r exceeds half of neither adjacent segment.
C8_ArcRadiusClamped ==
    rounded.called =>
        /\ Cardinality(ArcCommands) = Cardinality(ArcVertices)
        /\ \A n \in 1..Cardinality(ArcVertices) :
              LET i == NthOf(ArcVertices, n)
                  k == NthOf(ArcCommands, n)
                  len1 == SegmentLength(polyline[i - 1], polyline[i])
                  len2 == SegmentLength(polyline[i], polyline[i + 1])
                  r == Min(requested, Min(len1, len2) \div 2)
              IN /\ rounded.path[k].c = <<polyline[i]>>
                 /\ SquaredDistance(polyline[i], rounded.path[k - 1]) = r * r
                 /\ SquaredDistance(polyline[i], rounded.path[k]) = r * r
                 /\ 2 * r <= len1 /\ 2 * r <= len2

C8_Witness ==
    /\ rounded.called /\ requested = 40 /\ Len(polyline) = 4
    /\ Cardinality(ArcVertices) = 2
    /\ SegmentLength(polyline[1], polyline[2]) = 20
    /\ SegmentLength(polyline[2], polyline[3]) = 100
    /\ SegmentLength(polyline[3], polyline[4]) = 60

-----------------------------------------------------------------------------
(* Properties of the analyzer *)

\* the closed bounding boxes of a and b have a point in common
BoxesIntersect(a, b) ==
    /\ Max(a.x, b.x) <= Min(a.x + a.width, b.x + b.width)
    /\ Max(a.y, b.y) <= Min(a.y + a.height, b.y + b.height)

\* the overlap issues analyzeDiagram reported for the elements i and j
OverlapIssuesOn(i, j) ==
    {k \in DOMAIN analysis.issues :
        /\ analysis.issues[k].type = "overlap"
        /\ Range(analysis.issues[k].elementIds) = {i, j}}

\* C11: analyzeDiagram reports exactly one overlap issue, of severity high, for
\* each unordered pair of shapes (rectangle, ellipse, diamond) whose bounding
\* boxes intersect, and no overlap issue for any other pair of elements: pairs
\* that do not intersect and pairs with a connector or a text element.  Two
\* equal 100x100 squares 10px apart in x give exactly one.
C11_OneOverlapIssuePerIntersectingPair ==
    analysis.called =>
        /\ \A i, j \in DOMAIN canvas :
              i < j =>
                 IF IsShape(canvas[i]) /\ IsShape(canvas[j]) /\ BoxesIntersect(canvas[i], canvas[j])
                 THEN /\ Cardinality(OverlapIssuesOn(i, j)) = 1
                      /\ \A k \in OverlapIssuesOn(i, j) : analysis.issues[k].severity = "high"
                 ELSE OverlapIssuesOn(i, j) = {}
        /\ \A k \in DOMAIN analysis.issues :
              analysis.issues[k].type = "overlap" =>
                 \E i, j \in DOMAIN canvas : i < j /\ k \in OverlapIssuesOn(i, j)

\* the scenario: two equal squares 10px apart, with an arrow lying over them
C11_Witness ==
    /\ analysis.called
    /\ Len(canvas) = 3
    /\ canvas[1].type = "rectangle" /\ canvas[1].x = 0 /\ canvas[1].width = 100
    /\ canvas[2].type = "rectangle" /\ canvas[2].x = 10 /\ canvas[2].width = 100
    /\ canvas[3].type = "arrow"
    /\ Cardinality({k \in DOMAIN analysis.issues : analysis.issues[k].type = "overlap"}) = 1

-----------------------------------------------------------------------------
(* Properties of the edge intersection *)

\* hit lies on the ray from the centre of the shape in the direction of the angle
OnRay ==
    LET dx == hit.x - getShapeCenter(edgeShape).x
        dy == hit.y - getShapeCenter(edgeShape).y
    IN  dx * edgeAngle.s - dy * edgeAngle.c = 0 /\ dx * edgeAngle.c + dy * edgeAngle.s > 0

\* hit lies on the outline of the shape: the sides of the rectangle, the
\* ellipse x^2/a^2 + y^2/b^2 = 1, the diamond |x|/a + |y|/b = 1
OnBoundary ==
    LET dx == Abs(hit.x - getShapeCenter(edgeShape).x)
        dy == Abs(hit.y - getShapeCenter(edgeShape).y)
        a == edgeShape.width \div 2
        b == edgeShape.height \div 2
    IN  CASE edgeShape.type = "ellipse" -> dx * dx * b * b + dy * dy * a * a = a * a * b * b
          [] edgeShape.type = "diamond" -> dx * b + dy * a = a * b
          [] OTHER -> (dx = a /\ dy <= b) \/ (dy = b /\ dx <= a)

\* C12: for a rectangle, an ellipse and a diamond, calculateEdgeIntersection
\* returns a point that lies on the ray from the shape's centre in the direction
\* of the angle and on the shape's boundary, for every angle.
C12_EdgeIntersectionOnRayAndBoundary == hit.called => OnRay /\ OnBoundary

\* the rectangle case alone
EdgeIntersectionOfRectangle ==
    hit.called /\ edgeShape.type \in {"rectangle", ""} => OnRay /\ OnBoundary

\* the spec's example: the 200x100 rectangle centred at (100, 50), angle 0
EdgeIntersectionExample ==
    /\ hit.called /\ edgeShape.width = 200 /\ edgeShape.height = 100
    /\ edgeAngle.c = 1 /\ edgeAngle.s = 0
    => hit.x = 200 /\ hit.y = 50

\* an ellipse or a diamond always gets a point of its boundary
EdgeIntersectionOnBoundary == hit.called => OnBoundary

-----------------------------------------------------------------------------
(* Properties of the curved path *)

FiniteControlPoints ==
    /\ IsFinite(curve.controlPoint1.x) /\ IsFinite(curve.controlPoint1.y)
    /\ IsFinite(curve.controlPoint2.x) /\ IsFinite(curve.controlPoint2.y)

\* C13: path computations on coincident points never divide by zero or produce
\* NaN: calculateCurvedPath with start equal to end returns finite control-point
\* coordinates.
C13_CoincidentPointsStayFinite ==
    curve.called /\ curveArgs.start = curveArgs.end => FiniteControlPoints

\* with two different end points the control points are finite, and lie
\* curveAmount times the distance beside the midpoint
CurveOfDistinctPoints ==
    curve.called /\ curveArgs.start # curveArgs.end =>
        /\ FiniteControlPoints
        /\ LET cx == curve.controlPoint1.x
               k == curveArgs.curveAmount
           IN  2 * k.d * cx.n = cx.d * (k.d * (curveArgs.start.x + curveArgs.end.x)
                                         - 2 * k.n * (curveArgs.end.y - curveArgs.start.y))

-----------------------------------------------------------------------------
(* Properties of the org chart layout *)

\* C14: layout generators do not modify their inputs: after a call to
\* orgChartLayout every hierarchy record passed by the caller has the same
\* field values as before the call.
C14_LayoutLeavesInputsAlone == [][hierarchy' = hierarchy]_vars

\* a hierarchy whose levels are already the depths comes back unchanged
OrgLevelsAreDepths ==
    orgLayout.called => hierarchy = OrgHierarchyAfter(hierarchy)

\* every node of the hierarchy is placed, below its parent by levelSpacing
OrgChildBelowParent ==
    orgLayout.called /\ OrgChartOptions(orgOptions).orientation = "vertical" =>
        \A k \in DOMAIN orgLayout.connections :
            LET conn == orgLayout.connections[k]
            IN  /\ conn.from \in DOMAIN orgLayout.nodes /\ conn.to \in DOMAIN orgLayout.nodes
                /\ conn.from # conn.to =>
                      orgLayout.nodes[conn.to].y
                          = orgLayout.nodes[conn.from].y + OrgChartOptions(orgOptions).levelSpacing

-----------------------------------------------------------------------------
(* Properties of the flowcharts *)

FlowStepIds == {flowArgs.steps[k].id : k \in DOMAIN flowArgs.steps}

\* the connections of the call with an end that is not the id of a step
FlowDangling ==
    {k \in DOMAIN flowArgs.connections :
        flowArgs.connections[k].from \notin FlowStepIds \/ flowArgs.connections[k].to \notin FlowStepIds}

\* with a dangling connection the call succeeds and creates every other connection
FlowDanglingStillSucceeds ==
    flowResult.status = "returned" /\ flowArgs.hasSteps =>
        /\ flowResult.success
        /\ Len(ctx.connections) = Len(flowArgs.connections) - Cardinality(FlowDangling)
        /\ \A k \in DOMAIN flowArgs.connections \ FlowDangling :
              \E j \in DOMAIN ctx.connections :
                  /\ ctx.connections[j].sourceId = flowResult.nodeIds[flowArgs.connections[k].from]
                  /\ ctx.connections[j].targetId = flowResult.nodeIds[flowArgs.connections[k].to]

\* C15: handleCreateFlowchart given a connection whose from or to is not the id
\* of any step still succeeds and creates every other connection, and its result
\* reports that connections were skipped, with a skipped count of at least the
\* number of such connections.
C15_DanglingConnectionsReported ==
    flowResult.status = "returned" /\ flowArgs.hasSteps /\ FlowDangling # {} =>
        /\ flowResult.success
        /\ Len(ctx.connections) = Len(flowArgs.connections) - Cardinality(FlowDangling)
        /\ flowResult.warned
        /\ flowResult.skippedCount >= Cardinality(FlowDangling)

\* no step is its own descendant
FlowAcyclic ==
    \A k \in DOMAIN flowArgs.connections :
        flowArgs.connections[k].from
            \notin Descendants(flowArgs.connections, flowArgs.connections[k].from)

\* C20: calculateFlowchartLayout assigns each step the length of the longest path
\* from a start step: for an acyclic connection set, layer(to) >= layer(from) + 1
\* for every connection between existing steps, also downstream of a step whose
\* layer was raised on a later visit.
C20_FlowLayerBelowPredecessors ==
    flowLayout.called /\ FlowAcyclic =>
        \A k \in DOMAIN flowArgs.connections \ FlowDangling :
            flowLayout.layers[flowArgs.connections[k].to]
                >= flowLayout.layers[flowArgs.connections[k].from] + 1

\* the layer of a step that was visited again is raised to the longer path
FlowLayerRaisedOnRevisit ==
    /\ flowLayout.called
    /\ flowArgs.connections = <<[from |-> "a", to |-> "b"], [from |-> "a", to |-> "c"],
                                 [from |-> "c", to |-> "b"]>>
    /\ Len(flowArgs.steps) >= 3
    => flowLayout.layers["b"] = 2

-----------------------------------------------------------------------------
(* Properties of repeated layout calls *)

Deterministic == {"tree", "circular", "grid", "dagre"}

ForceDirectedLayoutsAgree ==
    again.algo = "force-directed" => again.nodes = layout.nodes

-----------------------------------------------------------------------------
(* Properties of the ranks of dagreLayout *)

\* the sources of the edges that enter id
Predecessors(es, id) == {es[i].from : i \in {j \in DOMAIN es : es[j].to = id}}

\* C17: for an acyclic edge set over the node ids, dagreLayout gives rank 0 to
\* every node with no incoming edge and every other node the rank 1 + the
\* maximum rank of its predecessors
C17_DagreRankIsLongestPath ==
    (layout.algo = "dagre" /\ EdgesOverNodes /\ Acyclic(edges)) =>
        /\ ~layout.thrown
        /\ \A id \in NodeIdSet(nodes) :
              layout.aux[id] =
                  IF Predecessors(edges, id) = {} THEN 0
                  ELSE 1 + SetMax({layout.aux[p] : p \in Predecessors(edges, id)})

\* a node reached over one edge and over a path of two edges got rank 2
C17_Witness ==
    /\ layout.algo = "dagre" /\ EdgesOverNodes /\ Acyclic(edges)
    /\ ~layout.thrown
    /\ \E id \in NodeIdSet(nodes) :
          /\ Cardinality(Predecessors(edges, id)) = 2
          /\ layout.aux[id] = 2

\* the ids whose in-degree is still not zero when the queue of dagreLayout runs dry
DagreNeverReady(ns, es) ==
    LET deg == InDegree0(ns, es)
        sources == SelectSeq([i \in DOMAIN ns |-> ns[i].id], LAMBDA id : deg[id] = 0)
        st == DagreLoop(ns, es, [inDegree |-> deg, ranks |-> [id \in Range(sources) |-> 0],
                                 order |-> sources, queue |-> sources])
    IN {id \in NodeIdSet(ns) : st.inDegree[id] # 0}

\* C18: every node whose in-degree never reaches zero during the rank
\* relaxation of dagreLayout (a node on a cycle) has rank 0 in the result
C18_CycleNodesPinnedToRankZero ==
    (layout.algo = "dagre" /\ EdgesOverNodes) =>
        \A id \in DagreNeverReady(nodes, edges) : layout.aux[id] = 0

\* in a graph where every node lies on a cycle all ranks are 0
DagreFullyCyclicAllZero ==
    (layout.algo = "dagre" /\ EdgesOverNodes
        /\ DagreNeverReady(nodes, edges) = NodeIdSet(nodes)) =>
        \A id \in NodeIdSet(nodes) : layout.aux[id] = 0

-----------------------------------------------------------------------------
(* Properties of the roots of treeLayout *)

\* C19: treeLayout returns a position for every input node; the roots are the
\* nodes with no incoming edge, and all nodes when every node has one
C19_TreePlacesEveryNode ==
    (layout.algo = "tree" /\ EdgesOverNodes) =>
        /\ ~layout.thrown
        /\ DOMAIN layout.nodes = NodeIdSet(nodes)

\* the first level is exactly the nodes with no incoming edge, in node order
TreeRootsOnFirstLevel ==
    (layout.algo = "tree" /\ EdgesOverNodes) =>
        LET roots == TreeRoots(nodes, edges)
        IN IF roots = <<>> THEN layout.aux = <<>> /\ DOMAIN layout.nodes = {}
           ELSE layout.aux[1] = [i \in DOMAIN roots |-> roots[i].id]

\* a tree layout places every node that a root reaches, and no other
TreePlacesWhatRootsReach ==
    (layout.algo = "tree" /\ EdgesOverNodes) =>
        LET roots == {TreeRoots(nodes, edges)[i].id : i \in DOMAIN TreeRoots(nodes, edges)}
        IN DOMAIN layout.nodes = roots \cup UNION {Descendants(edges, r) : r \in roots}

-----------------------------------------------------------------------------
(* Properties of useAIDiagram *)

\* the runs whose controller has been aborted, by cancel() or by a later trigger()
Cancelled == {r \in Runs : r \in aborted}

Polling == {r \in Runs : runs[r].pc \in {"fetching", "sleeping"}}

\* C21: after cancel(), or after a new trigger(), the cancelled run has no
\* further effect: it issues no more status requests and never sets result,
\* error or the status 'completed' / 'failed'
C21_CancelledRunHasNoEffect ==
    [][\A r \in Cancelled :
          runs'[r].polls = runs[r].polls /\ runs'[r].wrote = runs[r].wrote]_vars

\* a run cancelled while one of its requests is in flight ends there
CancelledInFlightStops ==
    [][\A r \in Cancelled :
          (runs[r].pc \in {"posting", "fetching"} /\ runs[r].signal = r)
              => (runs'[r].pc \in {runs[r].pc, "done"}
                    /\ runs'[r].polls = runs[r].polls /\ runs'[r].wrote = runs[r].wrote)]_vars

\* at most one polling loop is active at any time
OnePollingLoop == Cardinality(Polling) <= 1

-----------------------------------------------------------------------------
(* Properties of the canvas store *)

\* the last diagramService.autoSave call carried the arrays the store holds now
Persisted ==
    /\ lastCall.count > 0
    /\ lastCall.id = store.currentDiagramId
    /\ lastCall.elements = store.elements
    /\ lastCall.connections = store.connections

Unsaved == store.currentDiagramId # 0 /\ debouncer.timeoutId /\ ~Persisted

\* C22: while a diagram is open every change made through the store actions is
\* eventually persisted (or the diagram is closed), provided timers fire and
\* every started save completes, also when it is made while a save is in flight
C22_ChangesEventuallySaved ==
    Unsaved ~> (Persisted \/ store.currentDiagramId = 0)

\* a change made while no save is in flight, and none is started by hand, is saved
ChangeSavedWhenNotSaving ==
    [][(debouncer.timeoutId /\ ~store.isSaving /\ store.currentDiagramId # 0
          /\ ~debouncer'.timeoutId /\ store' # store /\ store'.currentDiagramId # 0)
        => Persisted']_vars

\* C23: closeDiagram with a debounced auto-save pending calls
\* diagramService.autoSave for the diagram being closed, with the current
\* elements and connections, before currentDiagramId is cleared
C23_CloseFlushesPendingSave ==
    [][(store.currentDiagramId # 0 /\ store'.currentDiagramId = 0 /\ debouncer.timeoutId)
        => /\ lastCall'.count = lastCall.count + 1
           /\ lastCall'.id = store.currentDiagramId
           /\ lastCall'.elements = store.elements
           /\ lastCall'.connections = store.connections]_vars

\* no auto-save call after the close: while closed the call counter stands still
NoSaveAfterClose ==
    [][store.currentDiagramId = 0 => lastCall' = lastCall]_vars

\* closing with a save pending and none in flight does flush
CloseFlushesWhenNotSaving ==
    [][(store.currentDiagramId # 0 /\ store'.currentDiagramId = 0 /\ debouncer.timeoutId
          /\ ~store.isSaving)
        => /\ lastCall'.count = lastCall.count + 1
           /\ lastCall'.id = store.currentDiagramId
           /\ lastCall'.elements = store.elements
           /\ lastCall'.connections = store.connections
           /\ ~debouncer'.timeoutId]_vars

-----------------------------------------------------------------------------
(* Properties of the positions of orgChartLayout *)

\* every node of the forest, at any depth
RECURSIVE OrgNodesOf(_)
OrgNodesOf(hier) ==
    UNION {{hier[k]} \cup OrgNodesOf(hier[k].children) : k \in DOMAIN hier}

\* the ids of the forest, one per node, as a bag would count them
RECURSIVE OrgCount(_)
OrgCount(hier) ==
    LET RECURSIVE Sum(_)
        Sum(k) == IF k = 0 THEN 0 ELSE Sum(k - 1) + 1 + OrgCount(hier[k].children)
    IN Sum(Len(hier))

OrgUniqueIds == Cardinality({n.id : n \in OrgNodesOf(hierarchy)}) = OrgCount(hierarchy)

OrgVertical == orgLayout.called /\ OrgChartOptions(orgOptions).orientation = "vertical"

\* C24: in a vertical orgChartLayout of a forest with unique ids no two nodes
\* placed on the same level overlap horizontally
C24_NoOverlapOnALevel ==
    (OrgVertical /\ OrgUniqueIds) =>
        \A p, q \in DOMAIN orgLayout.nodes :
            (p # q /\ orgLayout.nodes[p].level = orgLayout.nodes[q].level) =>
                \/ orgLayout.nodes[p].x + orgLayout.nodes[p].width < orgLayout.nodes[q].x
                \/ orgLayout.nodes[q].x + orgLayout.nodes[q].width < orgLayout.nodes[p].x

\* with a single root no two nodes of a level overlap
OrgSingleRootNoOverlap ==
    (OrgVertical /\ OrgUniqueIds /\ Len(hierarchy) = 1) =>
        \A p, q \in DOMAIN orgLayout.nodes :
            (p # q /\ orgLayout.nodes[p].level = orgLayout.nodes[q].level) =>
                \/ orgLayout.nodes[p].x + orgLayout.nodes[p].width < orgLayout.nodes[q].x
                \/ orgLayout.nodes[q].x + orgLayout.nodes[q].width < orgLayout.nodes[p].x

-----------------------------------------------------------------------------
(* Properties of handleCreateMindMap *)

MindTimesPositioned(id) ==
    Cardinality({i \in DOMAIN mindResult.positioned : mindResult.positioned[i].id = id})

\* C25: handleCreateMindMap terminates for every branches list, also when the
\* children references form a cycle reachable from a root or a branch is the
\* child of two parents, and it positions each branch id at most once
C25_MindMapPositionsEachBranchOnce ==
    mindResult.status # "none" =>
        /\ mindResult.status = "returned"
        /\ \A i \in DOMAIN mindArgs.branches :
              MindTimesPositioned(mindArgs.branches[i].id) <= 1

\* the child references of the branches as a relation on ids
MindTree ==
    LET kids(id) == UNION {Range(mindArgs.branches[i].children) :
                              i \in {j \in DOMAIN mindArgs.branches : mindArgs.branches[j].id = id}}
        parents(id) == {mindArgs.branches[i].id :
                           i \in {j \in DOMAIN mindArgs.branches :
                                     id \in Range(mindArgs.branches[j].children)}}
        childLists == {mindArgs.branches[i].children : i \in DOMAIN mindArgs.branches}
    IN /\ \A i \in DOMAIN mindArgs.branches :
             /\ Cardinality(parents(mindArgs.branches[i].id)) <= 1
             /\ mindArgs.branches[i].id \notin kids(mindArgs.branches[i].id)
       /\ \A ch \in childLists : \A i, j \in DOMAIN ch : i # j => ch[i] # ch[j]

\* when the references form a forest every branch reached is positioned once
MindForestPositionedOnce ==
    (mindResult.status # "none" /\ MindTree) =>
        /\ mindResult.status = "returned"
        /\ \A i \in DOMAIN mindArgs.branches :
              MindTimesPositioned(mindArgs.branches[i].id) <= 1

\* the middle of a placed node along the axis on which siblings are laid out
OrgCentre(id) ==
    IF OrgChartOptions(orgOptions).orientation = "vertical"
    THEN orgLayout.nodes[id].x + orgLayout.nodes[id].width \div 2
    ELSE orgLayout.nodes[id].y + orgLayout.nodes[id].height \div 2

\* C26: subtreeWidth(n) = max(nodeWidth, sum of the children's subtree widths
\* + (k - 1) * siblingSpacing), and every node with children is centred over
\* the combined span of its children's subtrees
C26_ParentCentredOverChildren ==
    (orgLayout.called /\ OrgUniqueIds) =>
        \A n \in OrgNodesOf(hierarchy) :
            LET opts == OrgChartOptions(orgOptions)
                k == Len(n.children)
                W(c) == calculateSubtreeWidth(c, opts)
                RECURSIVE Sum(_)
                Sum(i) == IF i = 0 THEN 0 ELSE Sum(i - 1) + W(n.children[i])
            IN /\ W(n) = Max(opts.nodeWidth, Sum(k) + (k - 1) * opts.siblingSpacing)
               /\ k > 0 =>
                    /\ OrgCentre(n.children[k].id) + W(n.children[k]) \div 2
                         - (OrgCentre(n.children[1].id) - W(n.children[1]) \div 2)
                       = Sum(k) + (k - 1) * opts.siblingSpacing
                    /\ 2 * OrgCentre(n.id)
                       = (OrgCentre(n.children[1].id) - W(n.children[1]) \div 2)
                         + (OrgCentre(n.children[k].id) + W(n.children[k]) \div 2)

\* a parent of two children, one of them a parent itself, has been placed
C26_Witness ==
    /\ orgLayout.called /\ OrgUniqueIds
    /\ \E n \in OrgNodesOf(hierarchy) :
          /\ Len(n.children) = 2
          /\ Len(n.children[1].children) = 1
          /\ OrgCentre(n.id) > OrgCentre(n.children[1].id)
          /\ OrgCentre(n.id) < OrgCentre(n.children[2].id)

-----------------------------------------------------------------------------
(* Properties of the rings of radialLayout *)

\* the ids at undirected distance at most d from the set S
RECURSIVE Within(_, _)
Within(S, d) ==
    IF d = 0 THEN S
    ELSE LET near == Within(S, d - 1)
         IN near \cup {edges[i].to : i \in {j \in DOMAIN edges : edges[j].from \in near}}
                 \cup {edges[i].from : i \in {j \in DOMAIN edges : edges[j].to \in near}}

RadialRing(k) == Range(layout.aux[k + 1])

RadialRingOf(id) == CHOOSE k \in 0..(Len(layout.aux) - 1) : id \in RadialRing(k)

RadialReachable == Within(RadialRing(0), Len(nodes))

-----------------------------------------------------------------------------
(* Properties of getSmoothStepPath *)

StepOrthogonal ==
    \A i \in 1..(Len(stepPath.points) - 1) :
        \/ stepPath.points[i].x = stepPath.points[i + 1].x
        \/ stepPath.points[i].y = stepPath.points[i + 1].y

StepCanonical ==
    <<stepArgs.sourceHandle, stepArgs.targetHandle>>
        \in {<<"bottom", "top">>, <<"top", "bottom">>, <<"right", "left">>, <<"left", "right">>}

\* C28: every segment of the polyline getSmoothStepPath builds is horizontal
\* or vertical, for every pair of handles and every pair of anchor positions
C28_SmoothStepSegmentsOrthogonal ==
    stepPath.called => StepOrthogonal

\* for the four canonical opposing pairs the polyline is orthogonal
StepCanonicalOrthogonal ==
    (stepPath.called /\ StepCanonical) =>
        /\ Len(stepPath.points) = 4
        /\ stepPath.points[1] = stepArgs.s /\ stepPath.points[4] = stepArgs.t
        /\ StepOrthogonal

-----------------------------------------------------------------------------
(* Properties of checkRateLimit *)

\* the call numbered i created a window for its identifier
CreatedWindow(i) ==
    \/ checks[i].identifier \notin DOMAIN checks[i].before
    \/ checks[i].at > checks[i].before[checks[i].identifier].resetTime

\* the calls for the identifier of call i made from call i on, up to and
\* including call j, no later than the resetTime of the window call i created
InWindow(i, j) ==
    {k \in i..j : /\ checks[k].identifier = checks[i].identifier
                  /\ checks[k].at <= checks[i].at + ConfigOf(checks[i].identifier).windowMs}

AllowedInWindow(i, j) == {k \in InWindow(i, j) : checks[k].allowed}

\* C29: for each identifier at most config.limit requests are allowed between
\* the creation of a window and its resetTime; every further request in that
\* window is rejected with remaining = 0; a rejected request leaves the
\* identifier's record (count and resetTime) as it was
C29_RateLimitHoldsPerWindow ==
    \A i \in 1..Len(checks) :
        /\ CreatedWindow(i) =>
              LET limit == ConfigOf(checks[i].identifier).limit
              IN  /\ Cardinality(AllowedInWindow(i, Len(checks))) <= limit
                  /\ \A j \in InWindow(i, Len(checks)) :
                        Cardinality(AllowedInWindow(i, j - 1)) >= limit =>
                            ~checks[j].allowed /\ checks[j].remaining = 0
        /\ ~checks[i].allowed => checks[i].after = checks[i].before

\* a window was filled, a further request in it was rejected, and after the
\* window expired a request was allowed again
C29_Witness ==
    \E i, j, k \in 1..Len(checks) :
        /\ i < j /\ j < k
        /\ CreatedWindow(i)
        /\ j \in InWindow(i, Len(checks))
        /\ ~checks[j].allowed
        /\ checks[k].identifier = checks[i].identifier
        /\ CreatedWindow(k)
        /\ checks[k].allowed

\* remaining is the limit less the count the record holds after the call
RemainingIsLimitMinusCount ==
    \A i \in 1..Len(checks) :
        checks[i].allowed =>
            checks[i].remaining =
                ConfigOf(checks[i].identifier).limit
                    - checks[i].after[checks[i].identifier].count

-----------------------------------------------------------------------------
(* Properties of the two shape registries *)

RegistriesEmpty(c) == DOMAIN c.shapeRegistry = {} /\ DOMAIN c.shapeData = {}

\* C30: after any sequence of tool-handler calls a shape id is a key of
\* shapeRegistry if and only if it is a key of shapeData; handleClearCanvas
\* leaves both empty; on empty registries handleGetShapeInfo and
\* handleUpdateShape fail; a failed handleUpdateShape changes neither registry
C30_RegistriesHoldTheSameIds ==
    /\ DOMAIN ctx.shapeRegistry = DOMAIN ctx.shapeData
    /\ toolCall.tool = "handleClearCanvas" => RegistriesEmpty(ctx)
    /\ (toolCall.tool \in {"handleGetShapeInfo", "handleUpdateShape"}
            /\ RegistriesEmpty(toolCall.before)) => ~toolCall.success
    /\ (toolCall.tool = "handleUpdateShape" /\ ~toolCall.success) =>
            /\ ctx.shapeRegistry = toolCall.before.shapeRegistry
            /\ ctx.shapeData = toolCall.before.shapeData
            /\ toolCall.updates = <<>>

\* handleUpdateShape has failed on a canvas that handleClearCanvas emptied of
\* registered shapes
C30_Witness ==
    /\ toolCall.tool = "handleUpdateShape" /\ ~toolCall.success
    /\ toolCall.calls >= 2
    /\ RegistriesEmpty(toolCall.before)
    /\ toolCall.before.idCount > 0 /\ toolCall.before.elements = <<>>

\* a successful handleUpdateShape keeps the keys and the element id
UpdateKeepsTheKeys ==
    (toolCall.tool = "handleUpdateShape" /\ toolCall.success) =>
        /\ ctx.shapeRegistry = toolCall.before.shapeRegistry
        /\ DOMAIN ctx.shapeData = DOMAIN toolCall.before.shapeData

=============================================================================
